---------------------------- MODULE Spec2Model ----------------------------
(***************************************************************************)
(* A model of taggu's evaluation core: the pull-based stream adaptors      *)
(* (functions/util/stream_adaptor.rs) and the dual-mode IterableLike       *)
(* (functions/util/iterable_like.rs) built on them, the operators and     *)
(* predicates of the expression evaluator (scripting/expr/op/op2.rs,       *)
(* updated_scripting/ops/predicate.rs) and the cached metadata processor   *)
(* (metadata/processor.rs).                                                *)
(*                                                                         *)
(* Nine specifications are given.                                          *)
(*   Spec      one adaptor over raw source(s), pulled item by item.        *)
(*   SpecDeep  a chain of adaptors, built by wrapping, pulled item by item.*)
(*   SpecIter  the terminal operations of IterableLike applied to a        *)
(*             Sequence and to a Producer over the same input.             *)
(*   SpecComb  the combinators of IterableLike applied likewise, and what  *)
(*             they return collected.                                      *)
(*   SpecFlat  Flatten, Dedup or Unique over nested and repeated values,   *)
(*             pulled item by item.                                        *)
(*   SpecOp    Op::process and Op::and / or / xor applied to arguments.    *)
(*   SpecPred  Predicate::test applied to a predicate and a value.         *)
(*   SpecSort  sort applied to short sequences of values of every kind.    *)
(*   SpecCache calls of the metadata processor with a cache, while the     *)
(*             meta files change.                                          *)
(***************************************************************************)
EXTENDS Integers, Sequences, FiniteSets, TLC

VARIABLES head, out, input, call, resS, resP, endS, endP

vars == <<head, out, input, call, resS, resP, endS, endP>>

---------------------------------------------------------------------------
(* Bounds of the model. *)

\* Longest raw source stream.
MaxLen == 3
\* Longest second stream of a two-stream adaptor (chain, zip, interleave).
MaxLenB == 2
\* Largest count parameter of skip / take / nth, largest step of step_by.
MaxN == 2
\* Pulls made after the first end-of-stream.
MaxAfterEnd == 2
\* Deepest chain of adaptors in SpecDeep, and its longest source stream.
MaxDepth == 2
MaxDeepLen == 2

---------------------------------------------------------------------------
(* MetaVal: the tagged value.  Every value has the same record shape;     *)
(* k is the variant, n the payload of Int (the integer), Bul (0/1) and    *)
(* Dec (the mantissa, with sc the scale: n / 10^sc), s the elements of a  *)
(* Seq.  A Dec is kept normalised (no trailing zero in the mantissa), so  *)
(* that record equality is equality by numeric value, as Decimal's is.    *)

Nil == [k |-> "Nil", n |-> 0, sc |-> 0, s |-> <<>>]
I(i) == [k |-> "Int", n |-> i, sc |-> 0, s |-> <<>>]
Bul(b) == [k |-> "Bul", n |-> IF b THEN 1 ELSE 0, sc |-> 0, s |-> <<>>]
Str(i) == [k |-> "Str", n |-> i, sc |-> 0, s |-> <<>>]
Sq(s) == [k |-> "Seq", n |-> 0, sc |-> 0, s |-> s]

RECURSIVE DecNorm(_, _)
DecNorm(n, sc) ==
    IF sc > 0 /\ n % 10 = 0 THEN DecNorm(n \div 10, sc - 1)
    ELSE [k |-> "Dec", n |-> n, sc |-> sc, s |-> <<>>]

Dec(n, sc) == DecNorm(n, sc)

(* Result<MetaVal, Error> and Option<...>. *)
Ok(v) == [ok |-> TRUE, v |-> v, e |-> "-"]
Err(e) == [ok |-> FALSE, v |-> Nil, e |-> e]
None == <<>>
Some(x) == <<x>>

IsErr(o) == o # None /\ ~o[1].ok
IsOk(o) == o # None /\ o[1].ok

---------------------------------------------------------------------------
(* Unary predicates and converters: function values handed in by the      *)
(* expression evaluator.  The ones the repository's tests use.            *)

is_even_int(mv) ==
    IF mv.k = "Int" THEN [ok |-> TRUE, b |-> mv.n % 2 = 0, e |-> "-"]
    ELSE [ok |-> FALSE, b |-> FALSE, e |-> "NotNumeric"]

is_boolean(mv) == [ok |-> TRUE, b |-> mv.k = "Bul", e |-> "-"]

is_lt_4_int(mv) ==
    IF mv.k = "Int" THEN [ok |-> TRUE, b |-> mv.n < 4, e |-> "-"]
    ELSE [ok |-> FALSE, b |-> FALSE, e |-> "NotNumeric"]

conv_add_3(mv) ==
    CASE mv.k = "Int" -> Ok(I(mv.n + 3))
      [] mv.k = "Dec" -> Ok(Dec(mv.n + 3 * (10 ^ mv.sc), mv.sc))
      [] OTHER -> Err("NotNumeric")

Preds == {"is_even_int", "is_lt_4_int"}
Convs == {"conv_add_3"}

UnaryPredicate_process(fn, mv) ==
    CASE fn = "is_even_int" -> is_even_int(mv)
      [] fn = "is_boolean" -> is_boolean(mv)
      [] OTHER -> is_lt_4_int(mv)

UnaryConverter_process(fn, mv) == conv_add_3(mv)

---------------------------------------------------------------------------
(* StreamAdaptor: a node of the pull chain.  Every node has the same      *)
(* record shape; a kind uses the fields its struct has.                   *)
(*   ups    the owned upstream node(s)                                     *)
(*   items  the results a Raw / Fixed source holds, pos how many of them   *)
(*          its iterator has handed out                                    *)
(*   q      FlattenAdaptor.1 (the queue)                                   *)
(*   last   DedupAdaptor.1 (None or Some(value))                           *)
(*   seen   UniqueAdaptor.1                                                *)
(*   curr,n the counters of StepBy / Skip / Take                           *)
(*   flag   the bool of Chain / SkipWhile / TakeWhile / Intersperse /      *)
(*          Interleave                                                     *)
(*   fn     the predicate or converter, sep IntersperseAdaptor.1           *)
(* pulls and calls are observers, not program state: how often next() was *)
(* called on a source, and how often a node invoked its predicate or      *)
(* converter.                                                              *)

Blank ==
    [kind |-> "-", ups |-> <<>>, items |-> <<>>, pos |-> 0, pulls |-> 0,
     q |-> <<>>, last |-> None, seen |-> {}, curr |-> 0, n |-> 0,
     flag |-> FALSE, fn |-> "-", sep |-> Nil, calls |-> 0]

Raw(items) == [Blank EXCEPT !.kind = "Raw", !.items = items]
Fixed(s) == [Blank EXCEPT !.kind = "Fixed", !.items = [i \in 1..Len(s) |-> Ok(s[i])]]

FlattenAdaptor_new(s) == [Blank EXCEPT !.kind = "Flatten", !.ups = <<s>>]
DedupAdaptor_new(s) == [Blank EXCEPT !.kind = "Dedup", !.ups = <<s>>]
UniqueAdaptor_new(s) == [Blank EXCEPT !.kind = "Unique", !.ups = <<s>>]
FilterAdaptor_new(s, pred) == [Blank EXCEPT !.kind = "Filter", !.ups = <<s>>, !.fn = pred]
MapAdaptor_new(s, conv) == [Blank EXCEPT !.kind = "Map", !.ups = <<s>>, !.fn = conv]

\* Result<Self, Error>: fails when the step size is zero.
\* A constructor that lets a zero step through.
StepByAdaptor_new_unchecked(s, n) ==
    [ok |-> TRUE,
     ad |-> [Blank EXCEPT !.kind = "StepBy", !.ups = <<s>>, !.curr = n, !.n = n],
     e |-> "-"]

\* Result<Self, Error>: fails when the step size is zero.
StepByAdaptor_new(s, n) ==
    IF n = 0 THEN [ok |-> FALSE, ad |-> Blank, e |-> "ZeroStepSize"]
    ELSE [ok |-> TRUE,
          ad |-> [Blank EXCEPT !.kind = "StepBy", !.ups = <<s>>, !.curr = n, !.n = n],
          e |-> "-"]

ChainAdaptor_new(sa_a, sa_b) == [Blank EXCEPT !.kind = "Chain", !.ups = <<sa_a, sa_b>>, !.flag = FALSE]
ZipAdaptor_new(s_a, s_b) == [Blank EXCEPT !.kind = "Zip", !.ups = <<s_a, s_b>>]
SkipAdaptor_new(s, n) == [Blank EXCEPT !.kind = "Skip", !.ups = <<s>>, !.curr = 0, !.n = n]
TakeAdaptor_new(s, n) == [Blank EXCEPT !.kind = "Take", !.ups = <<s>>, !.curr = 0, !.n = n]
SkipWhileAdaptor_new(s, u_pred) == [Blank EXCEPT !.kind = "SkipWhile", !.ups = <<s>>, !.fn = u_pred, !.flag = TRUE]
TakeWhileAdaptor_new(s, u_pred) == [Blank EXCEPT !.kind = "TakeWhile", !.ups = <<s>>, !.fn = u_pred, !.flag = TRUE]
IntersperseAdaptor_new(s, mv) == [Blank EXCEPT !.kind = "Intersperse", !.ups = <<s>>, !.sep = mv, !.flag = FALSE]
InterleaveAdaptor_new(s_a, s_b) == [Blank EXCEPT !.kind = "Interleave", !.ups = <<s_a, s_b>>, !.flag = FALSE]

(* What next() returns: the item (or None) and the node after the call. *)
Ret(r, ad) == [r |-> r, ad |-> ad]

\* The node with its i-th upstream replaced by the upstream's state after a pull.
Up(ad, i, u) == [ad EXCEPT !.ups[i] = u]

RECURSIVE StreamAdaptor_next(_)
RECURSIVE FlattenAdaptor_next(_)
RECURSIVE DedupAdaptor_next(_)
RECURSIVE UniqueAdaptor_next(_)
RECURSIVE FilterAdaptor_next(_)
RECURSIVE MapAdaptor_next(_)
RECURSIVE StepByAdaptor_next(_)
RECURSIVE ChainAdaptor_next(_)
RECURSIVE ZipAdaptor_next(_)
RECURSIVE SkipAdaptor_next(_)
RECURSIVE TakeAdaptor_next(_)
RECURSIVE SkipWhileAdaptor_next(_)
RECURSIVE TakeWhileAdaptor_next(_)
RECURSIVE IntersperseAdaptor_next(_)
RECURSIVE InterleaveAdaptor_next(_)

\* Raw / Fixed: the underlying iterator; exhausted, it keeps returning None.
Source_next(ad) ==
    IF ad.pos < Len(ad.items)
    THEN Ret(Some(ad.items[ad.pos + 1]), [ad EXCEPT !.pos = @ + 1, !.pulls = @ + 1])
    ELSE Ret(None, [ad EXCEPT !.pulls = @ + 1])

\* The elements of s with those that are sequences replaced by their elements.
RECURSIVE ElementsFlattened(_)
ElementsFlattened(s) ==
    IF s = <<>> THEN <<>>
    ELSE (IF Head(s).k = "Seq" THEN Head(s).s ELSE <<Head(s)>>) \o ElementsFlattened(Tail(s))

\* A flatten that removes two nesting levels.
FlattenAdaptor_next_two_levels(ad) ==
    IF ad.q # <<>>
    THEN Ret(Some(Ok(Head(ad.q))), [ad EXCEPT !.q = Tail(@)])
    ELSE LET u == StreamAdaptor_next(ad.ups[1])
             ad1 == Up(ad, 1, u.ad)
         IN IF u.r = None THEN Ret(None, ad1)
            ELSE IF u.r[1].ok /\ u.r[1].v.k = "Seq"
                 THEN FlattenAdaptor_next([ad1 EXCEPT !.q = @ \o ElementsFlattened(u.r[1].v.s)])
                 ELSE Ret(u.r, ad1)

FlattenAdaptor_next(ad) ==
    IF ad.q # <<>>
    THEN Ret(Some(Ok(Head(ad.q))), [ad EXCEPT !.q = Tail(@)])
    ELSE LET u == StreamAdaptor_next(ad.ups[1])
             ad1 == Up(ad, 1, u.ad)
         IN IF u.r = None THEN Ret(None, ad1)
            ELSE IF u.r[1].ok /\ u.r[1].v.k = "Seq"
                 THEN FlattenAdaptor_next([ad1 EXCEPT !.q = @ \o u.r[1].v.s])
                 ELSE Ret(u.r, ad1)

\* A dedup that emits the repeats and drops the first value of each run.
DedupAdaptor_next_keeping_repeats(ad) ==
    LET u == StreamAdaptor_next(ad.ups[1])
        ad1 == Up(ad, 1, u.ad)
    IN IF u.r = None THEN Ret(None, ad1)
       ELSE IF ~u.r[1].ok THEN Ret(u.r, ad1)
       ELSE IF Some(u.r[1].v) = ad1.last
            THEN Ret(u.r, ad1)
            ELSE DedupAdaptor_next([ad1 EXCEPT !.last = Some(u.r[1].v)])

\* A dedup that forgets the remembered value at an error.
DedupAdaptor_next_resetting_on_error(ad) ==
    LET u == StreamAdaptor_next(ad.ups[1])
        ad1 == Up(ad, 1, u.ad)
    IN IF u.r = None THEN Ret(None, ad1)
       ELSE IF ~u.r[1].ok THEN Ret(u.r, [ad1 EXCEPT !.last = None])
       ELSE IF Some(u.r[1].v) # ad1.last
            THEN Ret(u.r, [ad1 EXCEPT !.last = Some(u.r[1].v)])
            ELSE DedupAdaptor_next(ad1)

DedupAdaptor_next(ad) ==
    LET u == StreamAdaptor_next(ad.ups[1])
        ad1 == Up(ad, 1, u.ad)
    IN IF u.r = None THEN Ret(None, ad1)
       ELSE IF ~u.r[1].ok THEN Ret(u.r, ad1)
       ELSE IF Some(u.r[1].v) # ad1.last
            THEN Ret(u.r, [ad1 EXCEPT !.last = Some(u.r[1].v)])
            ELSE DedupAdaptor_next(ad1)

\* A unique that remembers only the value it emitted last.
UniqueAdaptor_next_remembering_one(ad) ==
    LET u == StreamAdaptor_next(ad.ups[1])
        ad1 == Up(ad, 1, u.ad)
    IN IF u.r = None THEN Ret(None, ad1)
       ELSE IF ~u.r[1].ok THEN Ret(u.r, ad1)
       ELSE IF u.r[1].v \in ad1.seen
            THEN UniqueAdaptor_next(ad1)
            ELSE Ret(u.r, [ad1 EXCEPT !.seen = {u.r[1].v}])

UniqueAdaptor_next(ad) ==
    LET u == StreamAdaptor_next(ad.ups[1])
        ad1 == Up(ad, 1, u.ad)
    IN IF u.r = None THEN Ret(None, ad1)
       ELSE IF ~u.r[1].ok THEN Ret(u.r, ad1)
       ELSE IF u.r[1].v \in ad1.seen
            THEN UniqueAdaptor_next(ad1)
            ELSE Ret(u.r, [ad1 EXCEPT !.seen = @ \cup {u.r[1].v}])

FilterAdaptor_next(ad) ==
    LET u == StreamAdaptor_next(ad.ups[1])
        ad1 == Up(ad, 1, u.ad)
    IN IF u.r = None THEN Ret(None, ad1)
       ELSE IF ~u.r[1].ok THEN Ret(u.r, ad1)
       ELSE LET p == UnaryPredicate_process(ad.fn, u.r[1].v)
                ad2 == [ad1 EXCEPT !.calls = @ + 1]
            IN IF ~p.ok THEN Ret(Some(Err(p.e)), ad2)
               ELSE IF p.b THEN Ret(u.r, ad2)
               ELSE FilterAdaptor_next(ad2)

MapAdaptor_next(ad) ==
    LET u == StreamAdaptor_next(ad.ups[1])
        ad1 == Up(ad, 1, u.ad)
    IN IF u.r = None THEN Ret(None, ad1)
       ELSE IF ~u.r[1].ok THEN Ret(u.r, ad1)
       ELSE Ret(Some(UnaryConverter_process(ad.fn, u.r[1].v)), [ad1 EXCEPT !.calls = @ + 1])

\* A step_by whose counter also advances on an error.
StepByAdaptor_next_counting_errors(ad) ==
    LET u == StreamAdaptor_next(ad.ups[1])
        ad1 == Up(ad, 1, u.ad)
    IN IF u.r = None THEN Ret(None, ad1)
       ELSE IF ~u.r[1].ok THEN Ret(u.r, [ad1 EXCEPT !.curr = @ + 1])
       ELSE IF ad1.curr >= ad1.n
            THEN Ret(u.r, [ad1 EXCEPT !.curr = 1])
            ELSE StepByAdaptor_next([ad1 EXCEPT !.curr = @ + 1])

StepByAdaptor_next(ad) ==
    LET u == StreamAdaptor_next(ad.ups[1])
        ad1 == Up(ad, 1, u.ad)
    IN IF u.r = None THEN Ret(None, ad1)
       ELSE IF ~u.r[1].ok THEN Ret(u.r, ad1)
       ELSE IF ad1.curr >= ad1.n
            THEN Ret(u.r, [ad1 EXCEPT !.curr = 1])
            ELSE StepByAdaptor_next([ad1 EXCEPT !.curr = @ + 1])

\* A chain that also switches to its second stream at an error of the first.
ChainAdaptor_next_switching_on_error(ad) ==
    IF ~ad.flag
    THEN LET u == StreamAdaptor_next(ad.ups[1])
             ad1 == Up(ad, 1, u.ad)
         IN IF u.r = None THEN ChainAdaptor_next([ad1 EXCEPT !.flag = TRUE])
            ELSE IF ~u.r[1].ok THEN Ret(u.r, [ad1 EXCEPT !.flag = TRUE])
            ELSE Ret(u.r, ad1)
    ELSE LET u == StreamAdaptor_next(ad.ups[2])
         IN Ret(u.r, Up(ad, 2, u.ad))

ChainAdaptor_next(ad) ==
    IF ~ad.flag
    THEN LET u == StreamAdaptor_next(ad.ups[1])
             ad1 == Up(ad, 1, u.ad)
         IN IF u.r = None THEN ChainAdaptor_next([ad1 EXCEPT !.flag = TRUE])
            ELSE Ret(u.r, ad1)
    ELSE LET u == StreamAdaptor_next(ad.ups[2])
         IN Ret(u.r, Up(ad, 2, u.ad))

\* A zip that pairs the items the other way round.
ZipAdaptor_next_swapped(ad) ==
    LET a == StreamAdaptor_next(ad.ups[1])
        ad1 == Up(ad, 1, a.ad)
    IN IF a.r = None THEN Ret(None, ad1)
       ELSE LET b == StreamAdaptor_next(ad1.ups[2])
                ad2 == Up(ad1, 2, b.ad)
            IN IF b.r = None THEN Ret(None, ad2)
               ELSE IF ~a.r[1].ok THEN Ret(a.r, ad2)
               ELSE IF ~b.r[1].ok THEN Ret(b.r, ad2)
               ELSE Ret(Some(Ok(Sq(<<b.r[1].v, a.r[1].v>>))), ad2)

ZipAdaptor_next(ad) ==
    LET a == StreamAdaptor_next(ad.ups[1])
        ad1 == Up(ad, 1, a.ad)
    IN IF a.r = None THEN Ret(None, ad1)
       ELSE LET b == StreamAdaptor_next(ad1.ups[2])
                ad2 == Up(ad1, 2, b.ad)
            IN IF b.r = None THEN Ret(None, ad2)
               ELSE IF ~a.r[1].ok THEN Ret(a.r, ad2)
               ELSE IF ~b.r[1].ok THEN Ret(b.r, ad2)
               ELSE Ret(Some(Ok(Sq(<<a.r[1].v, b.r[1].v>>))), ad2)

\* A skip that goes on skipping over an error.
SkipAdaptor_next_swallowing(ad) ==
    IF ad.curr < ad.n
    THEN LET u == StreamAdaptor_next(ad.ups[1])
             ad1 == Up([ad EXCEPT !.curr = @ + 1], 1, u.ad)
         IN IF u.r = None THEN Ret(None, ad1)
            ELSE SkipAdaptor_next(ad1)
    ELSE LET u == StreamAdaptor_next(ad.ups[1])
         IN Ret(u.r, Up(ad, 1, u.ad))

\* A skip whose emitted errors do not count toward n.
SkipAdaptor_next_not_counting_errors(ad) ==
    IF ad.curr < ad.n
    THEN LET u == StreamAdaptor_next(ad.ups[1])
             ad1 == Up([ad EXCEPT !.curr = @ + 1], 1, u.ad)
         IN IF u.r = None THEN Ret(None, ad1)
            ELSE IF ~u.r[1].ok THEN Ret(u.r, Up(ad, 1, u.ad))
            ELSE SkipAdaptor_next(ad1)
    ELSE LET u == StreamAdaptor_next(ad.ups[1])
         IN Ret(u.r, Up(ad, 1, u.ad))

SkipAdaptor_next(ad) ==
    IF ad.curr < ad.n
    THEN LET u == StreamAdaptor_next(ad.ups[1])
             ad1 == Up([ad EXCEPT !.curr = @ + 1], 1, u.ad)
         IN IF u.r = None THEN Ret(None, ad1)
            ELSE IF ~u.r[1].ok THEN Ret(u.r, ad1)
            ELSE SkipAdaptor_next(ad1)
    ELSE LET u == StreamAdaptor_next(ad.ups[1])
         IN Ret(u.r, Up(ad, 1, u.ad))

\* A take whose quota counts values only.
TakeAdaptor_next_counting_values(ad) ==
    IF ad.curr < ad.n
    THEN LET u == StreamAdaptor_next(ad.ups[1])
         IN IF IsErr(u.r) THEN Ret(u.r, Up(ad, 1, u.ad))
            ELSE Ret(u.r, Up([ad EXCEPT !.curr = @ + 1], 1, u.ad))
    ELSE Ret(None, ad)

TakeAdaptor_next(ad) ==
    IF ad.curr < ad.n
    THEN LET u == StreamAdaptor_next(ad.ups[1])
         IN Ret(u.r, Up([ad EXCEPT !.curr = @ + 1], 1, u.ad))
    ELSE Ret(None, ad)

\* A skip_while that stops skipping at a predicate error.
SkipWhileAdaptor_next_clearing_on_error(ad) ==
    IF ad.flag
    THEN LET u == StreamAdaptor_next(ad.ups[1])
             ad1 == Up(ad, 1, u.ad)
         IN IF u.r = None THEN Ret(None, ad1)
            ELSE IF ~u.r[1].ok THEN Ret(u.r, ad1)
            ELSE LET p == UnaryPredicate_process(ad.fn, u.r[1].v)
                     ad2 == [ad1 EXCEPT !.calls = @ + 1]
                 IN IF ~p.ok THEN Ret(Some(Err(p.e)), [ad2 EXCEPT !.flag = FALSE])
                    ELSE IF p.b THEN SkipWhileAdaptor_next(ad2)
                    ELSE Ret(u.r, [ad2 EXCEPT !.flag = FALSE])
    ELSE LET u == StreamAdaptor_next(ad.ups[1])
         IN Ret(u.r, Up(ad, 1, u.ad))

\* A skip_while that never leaves the skipping phase.
SkipWhileAdaptor_next_keeping_flag(ad) ==
    LET u == StreamAdaptor_next(ad.ups[1])
        ad1 == Up(ad, 1, u.ad)
    IN IF u.r = None THEN Ret(None, ad1)
       ELSE IF ~u.r[1].ok THEN Ret(u.r, ad1)
       ELSE LET p == UnaryPredicate_process(ad.fn, u.r[1].v)
                ad2 == [ad1 EXCEPT !.calls = @ + 1]
            IN IF ~p.ok THEN Ret(Some(Err(p.e)), ad2)
               ELSE IF p.b THEN SkipWhileAdaptor_next(ad2)
               ELSE Ret(u.r, ad2)

SkipWhileAdaptor_next(ad) ==
    IF ad.flag
    THEN LET u == StreamAdaptor_next(ad.ups[1])
             ad1 == Up(ad, 1, u.ad)
         IN IF u.r = None THEN Ret(None, ad1)
            ELSE IF ~u.r[1].ok THEN Ret(u.r, ad1)
            ELSE LET p == UnaryPredicate_process(ad.fn, u.r[1].v)
                     ad2 == [ad1 EXCEPT !.calls = @ + 1]
                 IN IF ~p.ok THEN Ret(Some(Err(p.e)), ad2)
                    ELSE IF p.b THEN SkipWhileAdaptor_next(ad2)
                    ELSE Ret(u.r, [ad2 EXCEPT !.flag = FALSE])
    ELSE LET u == StreamAdaptor_next(ad.ups[1])
         IN Ret(u.r, Up(ad, 1, u.ad))

\* A take_while that ends the pull at a false result but not the stream.
TakeWhileAdaptor_next_keeping_flag(ad) ==
    IF ad.flag
    THEN LET u == StreamAdaptor_next(ad.ups[1])
             ad1 == Up(ad, 1, u.ad)
         IN IF u.r = None THEN Ret(None, ad1)
            ELSE IF ~u.r[1].ok THEN Ret(u.r, ad1)
            ELSE LET p == UnaryPredicate_process(ad.fn, u.r[1].v)
                     ad2 == [ad1 EXCEPT !.calls = @ + 1]
                 IN IF ~p.ok THEN Ret(Some(Err(p.e)), ad2)
                    ELSE IF p.b THEN Ret(u.r, ad2)
                    ELSE Ret(None, ad2)
    ELSE Ret(None, ad)

TakeWhileAdaptor_next(ad) ==
    IF ad.flag
    THEN LET u == StreamAdaptor_next(ad.ups[1])
             ad1 == Up(ad, 1, u.ad)
         IN IF u.r = None THEN Ret(None, ad1)
            ELSE IF ~u.r[1].ok THEN Ret(u.r, ad1)
            ELSE LET p == UnaryPredicate_process(ad.fn, u.r[1].v)
                     ad2 == [ad1 EXCEPT !.calls = @ + 1]
                 IN IF ~p.ok THEN Ret(Some(Err(p.e)), ad2)
                    ELSE IF p.b THEN Ret(u.r, ad2)
                    ELSE Ret(None, [ad2 EXCEPT !.flag = FALSE])
    ELSE Ret(None, ad)

\* An intersperse whose first turn is a separator turn.
IntersperseAdaptor_next_separator_first(ad) ==
    LET ad1 == [ad EXCEPT !.flag = ~@]
    IN IF ad.flag
       THEN LET u == StreamAdaptor_next(ad1.ups[1])
            IN Ret(u.r, Up(ad1, 1, u.ad))
       ELSE Ret(Some(Ok(ad1.sep)), ad1)

IntersperseAdaptor_next(ad) ==
    LET ad1 == [ad EXCEPT !.flag = ~@]
    IN IF ad1.flag
       THEN LET u == StreamAdaptor_next(ad1.ups[1])
            IN Ret(u.r, Up(ad1, 1, u.ad))
       ELSE Ret(Some(Ok(ad1.sep)), ad1)

\* An interleave that turns to the other stream when the due one is exhausted.
InterleaveAdaptor_next_falling_back(ad) ==
    LET ad1 == [ad EXCEPT !.flag = ~@]
        a == StreamAdaptor_next(ad1.ups[1])
        b == StreamAdaptor_next(ad1.ups[2])
    IN IF ad1.flag
       THEN IF a.r # None THEN Ret(a.r, Up(ad1, 1, a.ad)) ELSE Ret(b.r, Up(Up(ad1, 1, a.ad), 2, b.ad))
       ELSE IF b.r # None THEN Ret(b.r, Up(ad1, 2, b.ad)) ELSE Ret(a.r, Up(Up(ad1, 2, b.ad), 1, a.ad))

InterleaveAdaptor_next(ad) ==
    LET ad1 == [ad EXCEPT !.flag = ~@]
    IN IF ad1.flag
       THEN LET u == StreamAdaptor_next(ad1.ups[1])
            IN Ret(u.r, Up(ad1, 1, u.ad))
       ELSE LET u == StreamAdaptor_next(ad1.ups[2])
            IN Ret(u.r, Up(ad1, 2, u.ad))

StreamAdaptor_next(ad) ==
    CASE ad.kind \in {"Raw", "Fixed"} -> Source_next(ad)
      [] ad.kind = "Flatten" -> FlattenAdaptor_next(ad)
      [] ad.kind = "Dedup" -> DedupAdaptor_next(ad)
      [] ad.kind = "Unique" -> UniqueAdaptor_next(ad)
      [] ad.kind = "Filter" -> FilterAdaptor_next(ad)
      [] ad.kind = "Map" -> MapAdaptor_next(ad)
      [] ad.kind = "StepBy" -> StepByAdaptor_next(ad)
      [] ad.kind = "Chain" -> ChainAdaptor_next(ad)
      [] ad.kind = "Zip" -> ZipAdaptor_next(ad)
      [] ad.kind = "Skip" -> SkipAdaptor_next(ad)
      [] ad.kind = "Take" -> TakeAdaptor_next(ad)
      [] ad.kind = "SkipWhile" -> SkipWhileAdaptor_next(ad)
      [] ad.kind = "TakeWhile" -> TakeWhileAdaptor_next(ad)
      [] ad.kind = "Intersperse" -> IntersperseAdaptor_next(ad)
      [] OTHER -> InterleaveAdaptor_next(ad)


---------------------------------------------------------------------------
(* NumberLike: Integer | Decimal, carried as the Int / Dec value record.  *)

Pow10(k) == 10 ^ k

IsNumeric(mv) == mv.k \in {"Int", "Dec"}

\* TryFrom<MetaVal> for NumberLike.
NumberLike_try_from(mv) ==
    IF IsNumeric(mv) THEN [ok |-> TRUE, nl |-> mv, e |-> "-"]
    ELSE [ok |-> FALSE, nl |-> Nil, e |-> "NotNumeric"]

\* Decimal::cmp: by numeric value.  -1 Less, 0 Equal, 1 Greater.
Sign(x) == IF x < 0 THEN -1 ELSE IF x > 0 THEN 1 ELSE 0

Decimal_cmp(a, b) == Sign(a.n * Pow10(b.sc) - b.n * Pow10(a.sc))

\* An integer converted exactly to a decimal.
Decimal_from(i) == Dec(i, 0)

Reverse(o) == 0 - o

\* NumberLike::val_cmp: by numeric value across the two representations.
val_cmp(a, b) == Decimal_cmp(a, b)

val_min(a, b) == IF val_cmp(a, b) = 1 THEN b ELSE a

val_max(a, b) == IF val_cmp(a, b) = 1 THEN a ELSE b

\* AddAssign / MulAssign for NumberLike: the decimal absorbs the integer.
NumberLike_add(a, b) ==
    IF a.k = "Int" /\ b.k = "Int" THEN I(a.n + b.n)
    ELSE LET sc == IF a.sc > b.sc THEN a.sc ELSE b.sc
         IN Dec(a.n * Pow10(sc - a.sc) + b.n * Pow10(sc - b.sc), sc)

NumberLike_mul(a, b) ==
    IF a.k = "Int" /\ b.k = "Int" THEN I(a.n * b.n)
    ELSE Dec(a.n * b.n, a.sc + b.sc)

---------------------------------------------------------------------------
(* The derived ordering of MetaVal (#[derive(Ord)]): first by variant, in *)
(* declaration order, then by payload.                                     *)

VariantIndex(mv) ==
    CASE mv.k = "Nil" -> 0
      [] mv.k = "Str" -> 1
      [] mv.k = "Seq" -> 2
      [] mv.k = "Map" -> 3
      [] mv.k = "Int" -> 4
      [] mv.k = "Bul" -> 5
      [] OTHER -> 6

RECURSIVE MetaVal_cmp(_, _)
RECURSIVE Vec_cmp(_, _)
MetaVal_cmp(a, b) ==
    IF VariantIndex(a) # VariantIndex(b) THEN Sign(VariantIndex(a) - VariantIndex(b))
    ELSE CASE a.k = "Seq" -> Vec_cmp(a.s, b.s)
           [] a.k = "Dec" -> Decimal_cmp(a, b)
           [] OTHER -> Sign(a.n - b.n)

\* Lexicographic, a proper prefix first.
Vec_cmp(s, t) ==
    IF s = <<>> THEN (IF t = <<>> THEN 0 ELSE -1)
    ELSE IF t = <<>> THEN 1
    ELSE LET c == MetaVal_cmp(Head(s), Head(t))
         IN IF c # 0 THEN c ELSE Vec_cmp(Tail(s), Tail(t))

---------------------------------------------------------------------------
(* IterableLike: Sequence(Vec<MetaVal>) | Producer(ValueProducer).        *)

Sequence(s) == [lazy |-> FALSE, s |-> s, p |-> Blank]
Producer(p) == [lazy |-> TRUE, s |-> <<>>, p |-> p]

is_lazy(il) == il.lazy
is_eager(il) == ~is_lazy(il)

\* ValueProducer::from(Vec) and From<IterableLike> for ValueProducer.
ValueProducer_from(il) == IF il.lazy THEN il.p ELSE Fixed(il.s)

(* ValueProducer (functions/util/value_producer.rs) is not among the       *)
(* sources at hand.  It is taken to be the same pull chain under its other *)
(* name: value_producer::Flatten is FlattenAdaptor, and so on, and a pull  *)
(* of a ValueProducer is a pull of the StreamAdaptor.                      *)
ValueProducer_next(p) == StreamAdaptor_next(p)

(* The Result an operation returns, with the producer it left behind      *)
(* (Blank when none was pulled): its sources tell how many pulls the      *)
(* operation made.  val is the value of a terminal operation, il the      *)
(* IterableLike of a combinator.                                           *)
ROk(val, p) == [ok |-> TRUE, val |-> val, e |-> "-", p |-> p, il |-> Sequence(<<>>)]
RErr(e, p) == [ok |-> FALSE, val |-> Nil, e |-> e, p |-> p, il |-> Sequence(<<>>)]

\* Iterator::collect::<Result<Vec<_>, _>>(): stops at the first error.
RECURSIVE collect_loop(_, _)
collect_loop(p, acc) ==
    LET u == ValueProducer_next(p)
    IN IF u.r = None THEN ROk(acc, u.ad)
       ELSE IF ~u.r[1].ok THEN RErr(u.r[1].e, u.ad)
       ELSE collect_loop(u.ad, Append(acc, u.r[1].v))

collect(il) ==
    IF ~il.lazy THEN ROk(il.s, Blank)
    ELSE collect_loop(il.p, <<>>)

RECURSIVE count_loop(_, _)
\* A count that passes over errors.
count_loop_passing_errors(p, c) ==
    LET u == ValueProducer_next(p)
    IN IF u.r = None THEN ROk(c, u.ad)
       ELSE IF ~u.r[1].ok THEN count_loop(u.ad, c)
       ELSE count_loop(u.ad, c + 1)

count_loop(p, c) ==
    LET u == ValueProducer_next(p)
    IN IF u.r = None THEN ROk(c, u.ad)
       ELSE IF ~u.r[1].ok THEN RErr(u.r[1].e, u.ad)
       ELSE count_loop(u.ad, c + 1)

\* A count whose lazy arm starts at one.
count_from_one(il) ==
    IF ~il.lazy THEN ROk(Len(il.s), Blank)
    ELSE count_loop(il.p, 1)

count(il) ==
    IF ~il.lazy THEN ROk(Len(il.s), Blank)
    ELSE count_loop(il.p, 0)

first(il) ==
    IF ~il.lazy
    THEN IF il.s = <<>> THEN RErr("EmptySequence", Blank) ELSE ROk(Head(il.s), Blank)
    ELSE LET u == ValueProducer_next(il.p)
         IN IF u.r = None THEN RErr("EmptyProducer", u.ad)
            ELSE IF ~u.r[1].ok THEN RErr(u.r[1].e, u.ad)
            ELSE ROk(u.r[1].v, u.ad)

RECURSIVE last_loop(_, _)
\* A loop that keeps the last value it saw and passes over errors.
last_loop_passing_errors(p, last) ==
    LET u == ValueProducer_next(p)
    IN IF u.r = None
       THEN IF last = None THEN RErr("EmptyProducer", u.ad) ELSE ROk(last[1], u.ad)
       ELSE IF ~u.r[1].ok THEN last_loop(u.ad, last)
       ELSE last_loop(u.ad, Some(u.r[1].v))

last_loop(p, last) ==
    LET u == ValueProducer_next(p)
    IN IF u.r = None
       THEN IF last = None THEN RErr("EmptyProducer", u.ad) ELSE ROk(last[1], u.ad)
       ELSE IF ~u.r[1].ok THEN RErr(u.r[1].e, u.ad)
       ELSE last_loop(u.ad, Some(u.r[1].v))

last(il) ==
    IF ~il.lazy
    THEN IF il.s = <<>> THEN RErr("EmptySequence", Blank) ELSE ROk(il.s[Len(il.s)], Blank)
    ELSE last_loop(il.p, None)

RECURSIVE min_in_max_in_loop(_, _, _)
\* A loop that keeps the larger for Min and the smaller for Max.
min_in_max_in_loop_swapped(p, target_nl, flag) ==
    LET u == ValueProducer_next(p)
    IN IF u.r = None THEN ROk(target_nl, u.ad)
       ELSE IF ~u.r[1].ok THEN RErr(u.r[1].e, u.ad)
       ELSE LET nl == NumberLike_try_from(u.r[1].v)
            IN IF ~nl.ok THEN RErr(nl.e, u.ad)
               ELSE min_in_max_in_loop(u.ad,
                        IF flag = "Min" THEN val_max(target_nl, nl.nl)
                        ELSE val_min(target_nl, nl.nl),
                        flag)

min_in_max_in_loop(p, target_nl, flag) ==
    LET u == ValueProducer_next(p)
    IN IF u.r = None THEN ROk(target_nl, u.ad)
       ELSE IF ~u.r[1].ok THEN RErr(u.r[1].e, u.ad)
       ELSE LET nl == NumberLike_try_from(u.r[1].v)
            IN IF ~nl.ok THEN RErr(nl.e, u.ad)
               ELSE min_in_max_in_loop(u.ad,
                        IF flag = "Min" THEN val_min(target_nl, nl.nl)
                        ELSE val_max(target_nl, nl.nl),
                        flag)

min_in_max_in(il, flag) ==
    LET new_p == ValueProducer_from(il)
        err == IF il.lazy THEN "EmptyProducer" ELSE "EmptySequence"
        u == ValueProducer_next(new_p)
    IN IF u.r = None THEN RErr(err, u.ad)
       ELSE IF ~u.r[1].ok THEN RErr(u.r[1].e, u.ad)
       ELSE LET nl == NumberLike_try_from(u.r[1].v)
            IN IF ~nl.ok THEN RErr(nl.e, u.ad)
               ELSE min_in_max_in_loop(u.ad, nl.nl, flag)

min_in(il) == min_in_max_in(il, "Min")
max_in(il) == min_in_max_in(il, "Max")

\* The comparator sort hands to sort_by.
\* A comparison that does not smooth over integers and decimals.
smart_sort_by_derived(a, b) == MetaVal_cmp(a, b)

smart_sort_by(a, b) ==
    CASE a.k = "Int" /\ b.k = "Dec" -> Reverse(Decimal_cmp(b, Decimal_from(a.n)))
      [] a.k = "Dec" /\ b.k = "Int" -> Decimal_cmp(a, Decimal_from(b.n))
      [] OTHER -> MetaVal_cmp(a, b)

\* slice::sort_by on a short slice: a stable insertion sort.
RECURSIVE insert_tail(_, _)
insert_tail(sorted, x) ==
    IF sorted = <<>> THEN <<x>>
    ELSE IF smart_sort_by(x, sorted[Len(sorted)]) = -1
         THEN Append(insert_tail(SubSeq(sorted, 1, Len(sorted) - 1), x), sorted[Len(sorted)])
         ELSE Append(sorted, x)

RECURSIVE sort_by(_, _)
sort_by(done, rest) ==
    IF rest = <<>> THEN done ELSE sort_by(insert_tail(done, Head(rest)), Tail(rest))

reverse(s) == [i \in 1..Len(s) |-> s[Len(s) + 1 - i]]

rev_sort(il, flag) ==
    LET c == collect(il)
    IN IF ~c.ok THEN c
       ELSE ROk(IF flag = "Rev" THEN reverse(c.val) ELSE sort_by(<<>>, c.val), c.p)

rev(il) == rev_sort(il, "Rev")
sort(il) == rev_sort(il, "Sort")

RECURSIVE sum_prod_loop(_, _, _)
sum_prod_loop(p, total, flag) ==
    LET u == ValueProducer_next(p)
    IN IF u.r = None THEN ROk(total, u.ad)
       ELSE IF ~u.r[1].ok THEN RErr(u.r[1].e, u.ad)
       ELSE LET nl == NumberLike_try_from(u.r[1].v)
            IN IF ~nl.ok THEN RErr(nl.e, u.ad)
               ELSE sum_prod_loop(u.ad,
                        IF flag = "Sum" THEN NumberLike_add(total, nl.nl)
                        ELSE NumberLike_mul(total, nl.nl),
                        flag)

\* A sum_prod that seeds the product like the sum.
sum_prod_seeded_with_zero(il, flag) ==
    sum_prod_loop(ValueProducer_from(il), I(0), flag)

sum_prod(il, flag) ==
    sum_prod_loop(ValueProducer_from(il), IF flag = "Sum" THEN I(0) ELSE I(1), flag)

sum(il) == sum_prod(il, "Sum")
prod(il) == sum_prod(il, "Prod")

RECURSIVE all_equal_loop(_, _)
\* A loop that passes over errors.
all_equal_loop_passing_errors(p, first_mv) ==
    LET u == ValueProducer_next(p)
    IN IF u.r = None THEN ROk(TRUE, u.ad)
       ELSE IF ~u.r[1].ok THEN all_equal_loop(u.ad, first_mv)
       ELSE IF u.r[1].v # first_mv THEN ROk(FALSE, u.ad)
       ELSE all_equal_loop(u.ad, first_mv)

all_equal_loop(p, first_mv) ==
    LET u == ValueProducer_next(p)
    IN IF u.r = None THEN ROk(TRUE, u.ad)
       ELSE IF ~u.r[1].ok THEN RErr(u.r[1].e, u.ad)
       ELSE IF u.r[1].v # first_mv THEN ROk(FALSE, u.ad)
       ELSE all_equal_loop(u.ad, first_mv)

\* Over any iterator of results: a borrowed Vec or an owned producer.
all_equal_agnostic(it) ==
    LET u == ValueProducer_next(it)
    IN IF u.r = None THEN ROk(TRUE, u.ad)
       ELSE IF ~u.r[1].ok THEN RErr(u.r[1].e, u.ad)
       ELSE all_equal_loop(u.ad, u.r[1].v)

all_equal(il) == all_equal_agnostic(ValueProducer_from(il))

RECURSIVE nth_loop(_, _, _)
nth_loop(p, i, n) ==
    LET u == ValueProducer_next(p)
    IN IF u.r = None THEN RErr("OutOfBounds", u.ad)
       ELSE IF ~u.r[1].ok THEN RErr(u.r[1].e, u.ad)
       ELSE IF i = n THEN ROk(u.r[1].v, u.ad)
       ELSE nth_loop(u.ad, i + 1, n)

\* An nth whose lazy arm counts from one.
nth_counting_from_one(il, n) ==
    IF ~il.lazy
    THEN IF n < Len(il.s) THEN ROk(il.s[n + 1], Blank) ELSE RErr("OutOfBounds", Blank)
    ELSE nth_loop(il.p, 1, n)

nth(il, n) ==
    IF ~il.lazy
    THEN IF n < Len(il.s) THEN ROk(il.s[n + 1], Blank) ELSE RErr("OutOfBounds", Blank)
    ELSE nth_loop(il.p, 0, n)

\* A target that is true for All and false for Any.
AllAny_target_flipped(flag) == flag = "All"

AllAny_target(flag) == flag = "Any"

RECURSIVE all_any_loop(_, _, _)
all_any_loop(p, u_pred, target) ==
    LET u == ValueProducer_next(p)
    IN IF u.r = None THEN ROk(~target, u.ad)
       ELSE IF ~u.r[1].ok THEN RErr(u.r[1].e, u.ad)
       ELSE LET b == UnaryPredicate_process(u_pred, u.r[1].v)
            IN IF ~b.ok THEN RErr(b.e, u.ad)
               ELSE IF b.b = target THEN ROk(target, u.ad)
               ELSE all_any_loop(u.ad, u_pred, target)

all_any(il, u_pred, flag) ==
    all_any_loop(ValueProducer_from(il), u_pred, AllAny_target(flag))

all(il, u_pred) == all_any(il, u_pred, "All")
any(il, u_pred) == all_any(il, u_pred, "Any")

RECURSIVE find_loop(_, _)
find_loop(p, u_pred) ==
    LET u == ValueProducer_next(p)
    IN IF u.r = None THEN RErr("ItemNotFound", u.ad)
       ELSE IF ~u.r[1].ok THEN RErr(u.r[1].e, u.ad)
       ELSE LET b == UnaryPredicate_process(u_pred, u.r[1].v)
            IN IF ~b.ok THEN RErr(b.e, u.ad)
               ELSE IF b.b THEN ROk(u.r[1].v, u.ad)
               ELSE find_loop(u.ad, u_pred)

find(il, u_pred) == find_loop(ValueProducer_from(il), u_pred)

RECURSIVE position_loop(_, _, _)
position_loop(p, u_pred, i) ==
    LET u == ValueProducer_next(p)
    IN IF u.r = None THEN RErr("ItemNotFound", u.ad)
       ELSE IF ~u.r[1].ok THEN RErr(u.r[1].e, u.ad)
       ELSE LET b == UnaryPredicate_process(u_pred, u.r[1].v)
            IN IF ~b.ok THEN RErr(b.e, u.ad)
               ELSE IF b.b THEN ROk(i, u.ad)
               ELSE position_loop(u.ad, u_pred, i + 1)

position(il, u_pred) == position_loop(ValueProducer_from(il), u_pred, 0)

(* What a combinator returns: Result<IterableLike, Error>.  tmp is the   *)
(* temporary producer the call consumed or dropped inside the call (Blank *)
(* when there was none).                                                   *)
ILOk(il, tmp) == [ok |-> TRUE, val |-> Nil, e |-> "-", p |-> tmp, il |-> il]
ILErr(e, tmp) == RErr(e, tmp)

\* Self::Sequence(adaptor.collect::<Result<Vec<_>, _>>()?)
Collected(adaptor) ==
    LET c == collect_loop(adaptor, <<>>)
    IN IF c.ok THEN ILOk(Sequence(c.val), c.p) ELSE ILErr(c.e, c.p)

flatten(il) ==
    IF ~il.lazy THEN Collected(FlattenAdaptor_new(Fixed(il.s)))
    ELSE ILOk(Producer(FlattenAdaptor_new(il.p)), Blank)

dedup(il) ==
    IF ~il.lazy THEN Collected(DedupAdaptor_new(Fixed(il.s)))
    ELSE ILOk(Producer(DedupAdaptor_new(il.p)), Blank)

unique(il) ==
    IF ~il.lazy THEN Collected(UniqueAdaptor_new(Fixed(il.s)))
    ELSE ILOk(Producer(UniqueAdaptor_new(il.p)), Blank)

filter(il, u_pred) ==
    IF ~il.lazy THEN Collected(FilterAdaptor_new(Fixed(il.s), u_pred))
    ELSE ILOk(Producer(FilterAdaptor_new(il.p, u_pred)), Blank)

map(il, u_conv) ==
    IF ~il.lazy THEN Collected(MapAdaptor_new(Fixed(il.s), u_conv))
    ELSE ILOk(Producer(MapAdaptor_new(il.p, u_conv)), Blank)

step_by(il, step) ==
    LET a == StepByAdaptor_new(ValueProducer_from(il), step)
    IN IF ~a.ok THEN ILErr(a.e, ValueProducer_from(il))
       ELSE IF ~il.lazy THEN Collected(a.ad)
       ELSE ILOk(Producer(a.ad), Blank)

chain(il, other) ==
    IF ~il.lazy /\ ~other.lazy THEN ILOk(Sequence(il.s \o other.s), Blank)
    ELSE ILOk(Producer(ChainAdaptor_new(ValueProducer_from(il), ValueProducer_from(other))), Blank)

\* A zip that collects whenever its own operand is eager.
zip_collecting_for_eager_self(il, other) ==
    LET collect_after == is_eager(il)
        ret_p == ZipAdaptor_new(ValueProducer_from(il), ValueProducer_from(other))
    IN IF collect_after THEN Collected(ret_p)
       ELSE ILOk(Producer(ret_p), Blank)

zip(il, other) ==
    LET collect_after == is_eager(il) /\ is_eager(other)
        ret_p == ZipAdaptor_new(ValueProducer_from(il), ValueProducer_from(other))
    IN IF collect_after THEN Collected(ret_p)
       ELSE ILOk(Producer(ret_p), Blank)

\* A skip whose eager arm drops one item more.
skip_one_more(il, n) ==
    IF ~il.lazy
    THEN IF n + 1 >= Len(il.s) THEN ILOk(Sequence(<<>>), Blank)
         ELSE ILOk(Sequence(SubSeq(il.s, n + 2, Len(il.s))), Blank)
    ELSE ILOk(Producer(SkipAdaptor_new(il.p, n)), Blank)

skip(il, n) ==
    IF ~il.lazy
    THEN IF n >= Len(il.s) THEN ILOk(Sequence(<<>>), Blank)
         ELSE ILOk(Sequence(SubSeq(il.s, n + 1, Len(il.s))), Blank)
    ELSE ILOk(Producer(SkipAdaptor_new(il.p, n)), Blank)

\* A take whose eager arm keeps one item more.
take_one_more(il, n) ==
    IF ~il.lazy
    THEN ILOk(Sequence(SubSeq(il.s, 1, IF n < Len(il.s) THEN n + 1 ELSE Len(il.s))), Blank)
    ELSE ILOk(Producer(TakeAdaptor_new(il.p, n)), Blank)

take(il, n) ==
    IF ~il.lazy
    THEN ILOk(Sequence(SubSeq(il.s, 1, IF n < Len(il.s) THEN n ELSE Len(il.s))), Blank)
    ELSE ILOk(Producer(TakeAdaptor_new(il.p, n)), Blank)

\* A skip_while that pulls its adaptor once before it hands it back.
skip_while_pulling_ahead(il, u_pred) ==
    LET collect_after == is_eager(il)
        ret_p == SkipWhileAdaptor_new(ValueProducer_from(il), u_pred)
    IN IF collect_after THEN Collected(ret_p)
       ELSE ILOk(Producer(ValueProducer_next(ret_p).ad), Blank)

skip_while(il, u_pred) ==
    LET collect_after == is_eager(il)
        ret_p == SkipWhileAdaptor_new(ValueProducer_from(il), u_pred)
    IN IF collect_after THEN Collected(ret_p)
       ELSE ILOk(Producer(ret_p), Blank)

\* A take_while that never collects.
take_while_never_collecting(il, u_pred) ==
    ILOk(Producer(TakeWhileAdaptor_new(ValueProducer_from(il), u_pred)), Blank)

take_while(il, u_pred) ==
    LET collect_after == is_eager(il)
        ret_p == TakeWhileAdaptor_new(ValueProducer_from(il), u_pred)
    IN IF collect_after THEN Collected(ret_p)
       ELSE ILOk(Producer(ret_p), Blank)

---------------------------------------------------------------------------
(* The inputs of the model. *)

SeqsUpTo(S, L) == UNION {[1..k -> S] : k \in 0..L}

\* A nested value: flattened by Flatten, refused by the numeric predicates.
SeqV == Sq(<<I(3), I(4)>>)

\* The results a raw source may hold: values and (wrapped) stream errors.
ItemsA == {Ok(I(3)), Ok(I(4)), Ok(SeqV), Err("E1")}
ItemsB == {Ok(I(3)), Ok(I(4)), Err("E2")}
ItemsDeep == {Ok(I(3)), Ok(SeqV), Err("E1"), Err("E2")}
\* The second streams chained on in SpecDeep.
TailsDeep == {<<>>, <<Err("E3")>>, <<Ok(I(4)), Err("E3")>>}

StreamErrors == {"E1", "E2", "E3"}

\* The result slot of SpecIter before any call is made.
NoRes == RErr("n/a", Blank)
NoCall == [op |-> "-", n |-> 0, fn |-> "-", ys |-> <<>>, collected |-> FALSE]

RECURSIVE Depth(_)
Depth(ad) == IF ad.ups = <<>> THEN 0 ELSE 1 + Depth(ad.ups[1])

\* Number of end-of-stream results among the pulls made so far.
RECURSIVE Ends(_)
Ends(o) == IF o = <<>> THEN 0 ELSE (IF Head(o) = None THEN 1 ELSE 0) + Ends(Tail(o))


---------------------------------------------------------------------------
(* Spec / SpecDeep: a caller builds an adaptor over raw source(s) and     *)
(* pulls it.  d is the deepest chain the caller builds.                   *)

Init ==
    /\ head \in {Raw(s) : s \in SeqsUpTo(ItemsA, MaxLen)}
    /\ out = <<>>
    /\ input = <<>>
    /\ call = NoCall
    /\ resS = NoRes
    /\ resP = NoRes
    /\ endS = NoRes
    /\ endP = NoRes

InitDeep ==
    /\ head \in {Raw(s) : s \in SeqsUpTo(ItemsDeep, MaxDeepLen)}
    /\ out = <<>>
    /\ input = <<>>
    /\ call = NoCall
    /\ resS = NoRes
    /\ resP = NoRes
    /\ endS = NoRes
    /\ endP = NoRes

CanWrap(d) == out = <<>> /\ Depth(head) < d

Wrapped(ad) == head' = ad /\ UNCHANGED <<out, input, call, resS, resP, endS, endP>>

NewFlatten(d) == CanWrap(d) /\ Wrapped(FlattenAdaptor_new(head))

NewDedup(d) == CanWrap(d) /\ Wrapped(DedupAdaptor_new(head))

NewUnique(d) == CanWrap(d) /\ Wrapped(UniqueAdaptor_new(head))

NewFilter(d) == CanWrap(d) /\ \E p \in Preds : Wrapped(FilterAdaptor_new(head, p))

NewMap(d) == CanWrap(d) /\ \E c \in Convs : Wrapped(MapAdaptor_new(head, c))

\* A zero step is refused: no adaptor is built and the caller keeps its stream.
NewStepBy(d) ==
    /\ CanWrap(d)
    /\ \E n \in 0..MaxN :
          LET r == StepByAdaptor_new(head, n)
          IN r.ok /\ Wrapped(r.ad)

NewSkip(d) == CanWrap(d) /\ \E n \in 0..MaxN : Wrapped(SkipAdaptor_new(head, n))

NewTake(d) == CanWrap(d) /\ \E n \in 0..MaxN : Wrapped(TakeAdaptor_new(head, n))

NewSkipWhile(d) == CanWrap(d) /\ \E p \in Preds : Wrapped(SkipWhileAdaptor_new(head, p))

NewTakeWhile(d) == CanWrap(d) /\ \E p \in Preds : Wrapped(TakeWhileAdaptor_new(head, p))

NewIntersperse(d) == CanWrap(d) /\ Wrapped(IntersperseAdaptor_new(head, Nil))

NewChain(d, tails) == CanWrap(d) /\ \E b \in tails : Wrapped(ChainAdaptor_new(head, Raw(b)))

NewZip(d) ==
    CanWrap(d) /\ \E b \in SeqsUpTo(ItemsB, MaxLenB) : Wrapped(ZipAdaptor_new(head, Raw(b)))

NewInterleave(d) ==
    CanWrap(d) /\ \E b \in SeqsUpTo(ItemsB, MaxLenB) : Wrapped(InterleaveAdaptor_new(head, Raw(b)))

\* One call of next() on the outermost adaptor; out records what it returned.
Pull ==
    /\ Ends(out) <= MaxAfterEnd
    /\ LET r == StreamAdaptor_next(head)
       IN /\ head' = r.ad
          /\ out' = Append(out, r.r)
    /\ UNCHANGED <<input, call, resS, resP, endS, endP>>

Next ==
    \/ NewFlatten(1)
    \/ NewDedup(1)
    \/ NewUnique(1)
    \/ NewFilter(1)
    \/ NewMap(1)
    \/ NewStepBy(1)
    \/ NewSkip(1)
    \/ NewTake(1)
    \/ NewSkipWhile(1)
    \/ NewTakeWhile(1)
    \/ NewIntersperse(1)
    \/ NewChain(1, SeqsUpTo(ItemsB, MaxLenB))
    \/ NewZip(1)
    \/ NewInterleave(1)
    \/ Pull

Spec == Init /\ [][Next]_vars

NextDeep ==
    \/ NewFlatten(MaxDepth)
    \/ NewDedup(MaxDepth)
    \/ NewUnique(MaxDepth)
    \/ NewFilter(MaxDepth)
    \/ NewMap(MaxDepth)
    \/ NewStepBy(MaxDepth)
    \/ NewSkip(MaxDepth)
    \/ NewSkipWhile(MaxDepth)
    \/ NewChain(MaxDepth, TailsDeep)
    \/ Pull

SpecDeep == InitDeep /\ [][NextDeep]_vars

---------------------------------------------------------------------------
(* SpecIter: one IterableLike operation, applied to the Sequence holding  *)
(* the input's values (when the input holds no error) and to a Producer   *)
(* over the input.                                                         *)

\* Dec(3, 0) is the Decimal 3.0: equal to the Integer 3 by value, another MetaVal.
ItemsI == {Ok(I(3)), Ok(I(4)), Ok(Dec(35, 1)), Ok(Dec(3, 0)), Ok(SeqV), Err("E1")}
ValsB == {I(3), I(4), SeqV}

\* Pulls made on the sources of a chain, and predicate / converter calls in it.
RECURSIVE SrcPulls(_)
SrcPulls(ad) ==
    IF ad.ups = <<>> THEN ad.pulls
    ELSE SrcPulls(ad.ups[1]) + (IF Len(ad.ups) = 2 THEN SrcPulls(ad.ups[2]) ELSE 0)

RECURSIVE Calls(_)
Calls(ad) ==
    ad.calls + (IF ad.ups = <<>> THEN 0
                ELSE Calls(ad.ups[1]) + (IF Len(ad.ups) = 2 THEN Calls(ad.ups[2]) ELSE 0))

Clean(s) == \A i \in 1..Len(s) : s[i].ok
ValuesOf(s) == [i \in 1..Len(s) |-> s[i].v]

\* 0-based position of the first error of a stream (its length when there is none).
RECURSIVE FirstErr(_)
FirstErr(s) == IF s = <<>> \/ ~Head(s).ok THEN 0 ELSE 1 + FirstErr(Tail(s))

SeqIn == Sequence(ValuesOf(input))
ProdIn == Producer(Raw(input))

InitIter ==
    /\ input \in SeqsUpTo(ItemsI, MaxLen)
    /\ call = NoCall
    /\ resS = NoRes
    /\ resP = NoRes
    /\ endS = NoRes
    /\ endP = NoRes
    /\ head = Blank
    /\ out = <<>>

Idle == call.op = "-"

(* One call of an operation: rS is what it returns on the Sequence, rP on *)
(* the Producer.  The Sequence exists only when the input holds no error.  *)
Called(op, n, fn, ys, rS, rP) ==
    /\ Idle
    /\ call' = [op |-> op, n |-> n, fn |-> fn, ys |-> ys, collected |-> FALSE]
    /\ resS' = IF Clean(input) THEN rS ELSE NoRes
    /\ resP' = rP
    /\ UNCHANGED <<input, head, out, endS, endP>>

DoCollect == Called("collect", 0, "-", <<>>, collect(SeqIn), collect(ProdIn))

DoCount == Called("count", 0, "-", <<>>, count(SeqIn), count(ProdIn))

DoFirst == Called("first", 0, "-", <<>>, first(SeqIn), first(ProdIn))

DoLast == Called("last", 0, "-", <<>>, last(SeqIn), last(ProdIn))

DoMinIn == Called("min_in", 0, "-", <<>>, min_in(SeqIn), min_in(ProdIn))

DoMaxIn == Called("max_in", 0, "-", <<>>, max_in(SeqIn), max_in(ProdIn))

DoRev == Called("rev", 0, "-", <<>>, rev(SeqIn), rev(ProdIn))

DoSort == Called("sort", 0, "-", <<>>, sort(SeqIn), sort(ProdIn))

DoSum == Called("sum", 0, "-", <<>>, sum(SeqIn), sum(ProdIn))

DoProd == Called("prod", 0, "-", <<>>, prod(SeqIn), prod(ProdIn))

DoAllEqual == Called("all_equal", 0, "-", <<>>, all_equal(SeqIn), all_equal(ProdIn))

DoNth == \E n \in 0..MaxN : Called("nth", n, "-", <<>>, nth(SeqIn, n), nth(ProdIn, n))

DoAll == \E p \in Preds : Called("all", 0, p, <<>>, all(SeqIn, p), all(ProdIn, p))

DoAny == \E p \in Preds : Called("any", 0, p, <<>>, any(SeqIn, p), any(ProdIn, p))

DoFind == \E p \in Preds : Called("find", 0, p, <<>>, find(SeqIn, p), find(ProdIn, p))

DoPosition == \E p \in Preds : Called("position", 0, p, <<>>, position(SeqIn, p), position(ProdIn, p))

DoFlatten == Called("flatten", 0, "-", <<>>, flatten(SeqIn), flatten(ProdIn))

DoDedup == Called("dedup", 0, "-", <<>>, dedup(SeqIn), dedup(ProdIn))

DoUnique == Called("unique", 0, "-", <<>>, unique(SeqIn), unique(ProdIn))

DoFilter == \E p \in Preds : Called("filter", 0, p, <<>>, filter(SeqIn, p), filter(ProdIn, p))

DoMap == \E c \in Convs : Called("map", 0, c, <<>>, map(SeqIn, c), map(ProdIn, c))

DoStepBy == \E n \in 0..MaxN : Called("step_by", n, "-", <<>>, step_by(SeqIn, n), step_by(ProdIn, n))

DoChain ==
    \E ys \in SeqsUpTo(ValsB, MaxLenB) :
        Called("chain", 0, "-", ys, chain(SeqIn, Sequence(ys)),
               chain(ProdIn, Producer(Fixed(ys))))

DoZip ==
    \E ys \in SeqsUpTo(ValsB, MaxLenB) :
        Called("zip", 0, "-", ys, zip(SeqIn, Sequence(ys)),
               zip(ProdIn, Producer(Fixed(ys))))

\* chain and zip of operands of different kinds: a Sequence with a Producer
\* (kept in resS) and a Producer with a Sequence (kept in resP).
DoChainMixed ==
    \E ys \in SeqsUpTo(ValsB, MaxLenB) :
        Called("chain_mixed", 0, "-", ys, chain(SeqIn, Producer(Fixed(ys))),
               chain(ProdIn, Sequence(ys)))

DoZipMixed ==
    \E ys \in SeqsUpTo(ValsB, MaxLenB) :
        Called("zip_mixed", 0, "-", ys, zip(SeqIn, Producer(Fixed(ys))),
               zip(ProdIn, Sequence(ys)))

DoSkip == \E n \in 0..MaxN + 1 : Called("skip", n, "-", <<>>, skip(SeqIn, n), skip(ProdIn, n))

DoTake == \E n \in 0..MaxN + 1 : Called("take", n, "-", <<>>, take(SeqIn, n), take(ProdIn, n))

DoSkipWhile == \E p \in Preds : Called("skip_while", 0, p, <<>>, skip_while(SeqIn, p), skip_while(ProdIn, p))

DoTakeWhile == \E p \in Preds : Called("take_while", 0, p, <<>>, take_while(SeqIn, p), take_while(ProdIn, p))

NextIter ==
    \/ DoCollect
    \/ DoCount
    \/ DoFirst
    \/ DoLast
    \/ DoMinIn
    \/ DoMaxIn
    \/ DoRev
    \/ DoSort
    \/ DoSum
    \/ DoProd
    \/ DoAllEqual
    \/ DoNth
    \/ DoAll
    \/ DoAny
    \/ DoFind
    \/ DoPosition

SpecIter == InitIter /\ [][NextIter]_vars

Combinators ==
    {"flatten", "dedup", "unique", "filter", "map", "step_by", "chain", "zip",
     "skip", "take", "skip_while", "take_while"}

\* The caller collects what a combinator returned.
CollectResult ==
    /\ call.op \in Combinators
    /\ ~call.collected
    /\ call' = [call EXCEPT !.collected = TRUE]
    /\ endS' = IF resS.ok THEN collect(resS.il) ELSE resS
    /\ endP' = IF resP.ok THEN collect(resP.il) ELSE resP
    /\ UNCHANGED <<input, head, out, resS, resP>>

NextComb ==
    \/ DoFlatten
    \/ DoDedup
    \/ DoUnique
    \/ DoFilter
    \/ DoMap
    \/ DoStepBy
    \/ DoChain
    \/ DoZip
    \/ DoSkip
    \/ DoTake
    \/ DoSkipWhile
    \/ DoTakeWhile
    \/ DoChainMixed
    \/ DoZipMixed
    \/ CollectResult

SpecComb == InitIter /\ [][NextComb]_vars


---------------------------------------------------------------------------
(* Observers the properties are stated with.                               *)

\* What the one upstream of the outermost adaptor has handed out so far.
Consumed == SubSeq(head.ups[1].items, 1, head.ups[1].pos)

IsSome(o) == o # None
NonNone(o) == SelectSeq(o, IsSome)
Nones(k) == [i \in 1..k |-> None]

\* s is t followed by end-of-stream results only.
ThenNones(s, t) == Len(s) >= Len(t) /\ s = t \o Nones(Len(s) - Len(t))

ItemOk(x) == x.ok

RECURSIVE OkCount(_)
OkCount(xs) == IF xs = <<>> THEN 0 ELSE (IF Head(xs).ok THEN 1 ELSE 0) + OkCount(Tail(xs))

PredicateFalse(x, fn) ==
    x.ok /\ UnaryPredicate_process(fn, x.v).ok /\ ~UnaryPredicate_process(fn, x.v).b

PredicateFails(x, fn) == x.ok /\ ~UnaryPredicate_process(fn, x.v).ok

\* 1-based position of the first value the predicate answers false to (0: none).
RECURSIVE FirstFalse(_, _)
FirstFalse(xs, fn) ==
    IF xs = <<>> THEN 0
    ELSE IF PredicateFalse(Head(xs), fn) THEN 1
    ELSE LET r == FirstFalse(Tail(xs), fn) IN IF r = 0 THEN 0 ELSE r + 1

\* 1-based position of the first value the predicate answers false to or fails on.
RECURSIVE FirstFalseOrFailure(_, _)
FirstFalseOrFailure(xs, fn) ==
    IF xs = <<>> THEN 0
    ELSE IF PredicateFalse(Head(xs), fn) \/ PredicateFails(Head(xs), fn) THEN 1
    ELSE LET r == FirstFalseOrFailure(Tail(xs), fn) IN IF r = 0 THEN 0 ELSE r + 1

RECURSIVE PredicateFailures(_, _)
PredicateFailures(xs, fn) ==
    IF xs = <<>> THEN 0
    ELSE (IF PredicateFails(Head(xs), fn) THEN 1 ELSE 0) + PredicateFailures(Tail(xs), fn)

RECURSIVE Occurrences(_, _)
Occurrences(o, x) ==
    IF o = <<>> THEN 0 ELSE (IF Head(o) = x THEN 1 ELSE 0) + Occurrences(Tail(o), x)

\* 0-based position of the first item that is an error or not a number.
RECURSIVE FirstBad(_)
FirstBad(s) ==
    IF s = <<>> \/ ~Head(s).ok \/ ~IsNumeric(Head(s).v) THEN 0 ELSE 1 + FirstBad(Tail(s))

\* The errors among items, in order.
RECURSIVE ErrorsOf(_)
ErrorsOf(xs) ==
    IF xs = <<>> THEN <<>>
    ELSE (IF Head(xs).ok THEN <<>> ELSE <<Head(xs).e>>) \o ErrorsOf(Tail(xs))

\* The errors the sources of a chain hold, and those they have handed out,
\* in source order (the first stream of a Chain before its second).
RECURSIVE SourceErrors(_)
SourceErrors(ad) ==
    IF ad.ups = <<>> THEN ErrorsOf(ad.items)
    ELSE SourceErrors(ad.ups[1]) \o (IF Len(ad.ups) = 2 THEN SourceErrors(ad.ups[2]) ELSE <<>>)

RECURSIVE SourceErrorsHandedOut(_)
SourceErrorsHandedOut(ad) ==
    IF ad.ups = <<>> THEN ErrorsOf(SubSeq(ad.items, 1, ad.pos))
    ELSE SourceErrorsHandedOut(ad.ups[1])
         \o (IF Len(ad.ups) = 2 THEN SourceErrorsHandedOut(ad.ups[2]) ELSE <<>>)

\* The source errors among the results pulled so far, in order.
RECURSIVE StreamErrorsOf(_)
StreamErrorsOf(o) ==
    IF o = <<>> THEN <<>>
    ELSE (IF IsErr(Head(o)) /\ Head(o)[1].e \in StreamErrors THEN <<Head(o)[1].e>> ELSE <<>>)
         \o StreamErrorsOf(Tail(o))

\* What take_while emits for an item the predicate is not false on.
TakeWhile_emitted(x, fn) ==
    IF PredicateFails(x, fn) THEN Some(Err(UnaryPredicate_process(fn, x.v).e)) ELSE Some(x)

\* Every n-th of the values of xs, counted from idx, and every error of xs.
RECURSIVE EveryNth(_, _, _)
EveryNth(xs, n, idx) ==
    IF xs = <<>> THEN <<>>
    ELSE IF ~Head(xs).ok THEN <<Some(Head(xs))>> \o EveryNth(Tail(xs), n, idx)
    ELSE (IF idx % n = 0 THEN <<Some(Head(xs))>> ELSE <<>>) \o EveryNth(Tail(xs), n, idx + 1)

EmptyInputOps == {"first", "last", "min_in", "max_in"}

---------------------------------------------------------------------------
(* The properties.                                                         *)

(* C1: on an error-free list every terminal operation returns the same    *)
(* result for the Sequence as for a Producer over the same items, except   *)
(* that on empty input first / last / min_in / max_in fail with            *)
(* EmptySequence for the Sequence and EmptyProducer for the Producer.      *)
C1_TerminalSameResult ==
    (call.op # "-" /\ Clean(input)) =>
        IF input = <<>> /\ call.op \in EmptyInputOps
        THEN /\ ~resS.ok /\ resS.e = "EmptySequence"
             /\ ~resP.ok /\ resP.e = "EmptyProducer"
        ELSE /\ resS.ok = resP.ok
             /\ resS.ok => resS.val = resP.val
             /\ ~resS.ok => resS.e = resP.e

C1_Witness ==
    /\ call.op = "sort"
    /\ Len(input) = 3
    /\ Clean(input)
    /\ resS.ok /\ resP.ok
    /\ resP.val = resS.val
    /\ resP.val # ValuesOf(input)
    /\ SrcPulls(resP.p) = 4

(* C2: on an error-free list, a combinator applied to the Sequence and    *)
(* then collected gives the same outcome (the same list, or the same first *)
(* error of a failing predicate or converter) as the combinator applied to *)
(* a Producer over the list and then collected.                            *)
C2_CombinatorSameOutcome ==
    (call.op \in Combinators /\ call.collected /\ Clean(input)) =>
        /\ endS.ok = endP.ok
        /\ endS.ok => endS.val = endP.val
        /\ ~endS.ok => endS.e = endP.e

C2_Witness ==
    /\ call.op = "skip_while"
    /\ call.collected
    /\ Clean(input)
    /\ Len(input) = 3
    /\ resP.ok /\ resP.il.lazy
    /\ ~resS.ok
    /\ ~endS.ok /\ ~endP.ok
    /\ endS.e = "NotNumeric" /\ endP.e = "NotNumeric"
    /\ SrcPulls(endP.p) = 2

(* C3: when the first error of a Producer is at position k, collect,      *)
(* count, last, rev, sort, sum, prod, min_in and max_in return that error  *)
(* after exactly k+1 pulls of the upstream; an item that is not a number   *)
(* at an earlier position j makes sum, prod, min_in and max_in return      *)
(* NotNumeric after exactly j+1 pulls.                                     *)
C3_FailFast ==
    (call.op # "-" /\ ~Clean(input)) =>
        LET k == FirstErr(input)
            j == FirstBad(input)
        IN /\ call.op \in {"collect", "count", "last", "rev", "sort"} =>
                /\ ~resP.ok
                /\ resP.e = input[k + 1].e
                /\ SrcPulls(resP.p) = k + 1
           /\ call.op \in {"sum", "prod", "min_in", "max_in"} =>
                /\ ~resP.ok
                /\ resP.e = (IF j < k THEN "NotNumeric" ELSE input[k + 1].e)
                /\ SrcPulls(resP.p) = j + 1

C3_Witness ==
    /\ call.op = "prod"
    /\ Len(input) = 3
    /\ input[1].ok /\ IsNumeric(input[1].v)
    /\ input[2].ok /\ ~IsNumeric(input[2].v)
    /\ ~input[3].ok
    /\ resP.e = "NotNumeric"
    /\ SrcPulls(resP.p) = 2

(* C4: in a chain of Flatten, Dedup, Unique, Filter, Map, StepBy, Skip,    *)
(* SkipWhile and Chain adaptors, the source errors pulled out of the       *)
(* outermost adaptor are, in order, the errors its sources have handed     *)
(* out, and once end-of-stream is returned they are all the errors the     *)
(* sources hold: none dropped, none emitted twice.                         *)
C4_ErrorsOnceInOrder ==
    head.kind # "-" =>
        /\ StreamErrorsOf(out) = SourceErrorsHandedOut(head)
        /\ Ends(out) > 0 => StreamErrorsOf(out) = SourceErrors(head)

C4_Witness ==
    /\ Depth(head) = 2
    /\ head.kind = "SkipWhile"
    /\ head.ups[1].kind = "Chain"
    /\ Ends(out) = 1
    /\ StreamErrorsOf(out) = <<"E1", "E2", "E3">>

(* C5: on every pull of ZipAdaptor in which a side yields an error, the   *)
(* pull emits an error, the first side's when both do, and not a pair or   *)
(* end-of-stream.  (The i-th pull asks the first stream for its i-th item  *)
(* and, when there is one, the second stream for its i-th item.)           *)
C5_ZipEmitsError ==
    head.kind = "Zip" =>
        LET A == head.ups[1].items
            B == head.ups[2].items
        IN \A i \in 1..Len(out) :
              /\ (i <= Len(A) /\ ~A[i].ok) => out[i] = Some(A[i])
              /\ (i <= Len(A) /\ A[i].ok /\ i <= Len(B) /\ ~B[i].ok) => out[i] = Some(B[i])

(* C6, as the code has it: a predicate error during the skipping phase is *)
(* emitted once and the phase goes on (the flag stays set until the        *)
(* predicate answers false), so the values after it are still tested.      *)
C6_SkipWhileErrorKeepsSkipping ==
    head.kind = "SkipWhile" =>
        LET c == Consumed
            K == FirstFalse(c, head.fn)
            tested == IF K = 0 THEN c ELSE SubSeq(c, 1, K)
        IN /\ head.flag = (K = 0)
           /\ head.calls = OkCount(tested)
           /\ Occurrences(out, Some(Err("NotNumeric"))) = PredicateFailures(tested, head.fn)

C6_Witness ==
    /\ head.kind = "SkipWhile"
    /\ head.fn = "is_lt_4_int"
    /\ head.ups[1].items = <<Ok(SeqV), Ok(I(3)), Ok(I(4))>>
    /\ out = <<Some(Err("NotNumeric")), Some(Ok(I(4)))>>
    /\ head.calls = 3

(* C6, as stated: a predicate error during the skipping phase ends the    *)
(* phase (the flag is cleared) and the predicate is not invoked on any     *)
(* later position.                                                         *)
C6_SkipWhileErrorEndsSkipping ==
    head.kind = "SkipWhile" =>
        LET c == Consumed
            E == FirstFalseOrFailure(c, head.fn)
        IN E > 0 => (~head.flag /\ head.calls = OkCount(SubSeq(c, 1, E)))

(* C7: SkipWhileAdaptor emits nothing but errors before the first value   *)
(* the predicate answers false to (the values it answers true to are       *)
(* discarded), emits that value, and from then on emits every upstream     *)
(* position unchanged without invoking the predicate again.                *)
C7_SkipWhilePassThrough ==
    head.kind = "SkipWhile" =>
        LET c == Consumed
            K == FirstFalse(c, head.fn)
            e == NonNone(out)
            m == IF K = 0 THEN 0 ELSE Len(c) - K + 1
            h == Len(e) - m
        IN /\ ThenNones(out, e)
           /\ h >= 0
           /\ \A i \in 1..h : IsErr(e[i])
           /\ \A i \in 1..m : e[h + i] = Some(c[K + i - 1])
           /\ K > 0 => head.calls = OkCount(SubSeq(c, 1, K))

C7_Witness ==
    /\ head.kind = "SkipWhile"
    /\ head.fn = "is_lt_4_int"
    /\ head.ups[1].items = <<Ok(I(3)), Ok(I(4)), Ok(I(3))>>
    /\ out = <<Some(Ok(I(4))), Some(Ok(I(3)))>>
    /\ head.calls = 2

(* C8: TakeWhileAdaptor emits every position before the first value the   *)
(* predicate answers false to (a value as itself, an upstream or predicate *)
(* error as the error, after which later values are still tested); at the  *)
(* first false it returns end-of-stream without the value, and every later *)
(* pull returns end-of-stream without pulling the upstream or invoking the *)
(* predicate.                                                              *)
C8_TakeWhileEnds ==
    head.kind = "TakeWhile" =>
        LET c == Consumed
            K == FirstFalse(c, head.fn)
            e == NonNone(out)
            emitted == IF K = 0 THEN c ELSE SubSeq(c, 1, K - 1)
        IN /\ ThenNones(out, e)
           /\ head.flag = (K = 0)
           /\ K > 0 => (K = Len(c) /\ head.ups[1].pulls = K /\ Len(out) > Len(e))
           /\ Len(e) = Len(emitted)
           /\ \A i \in 1..Len(emitted) : e[i] = TakeWhile_emitted(emitted[i], head.fn)
           /\ head.calls = OkCount(c)

C8_Witness ==
    /\ head.kind = "TakeWhile"
    /\ head.fn = "is_lt_4_int"
    /\ head.ups[1].items = <<Ok(SeqV), Ok(I(3)), Ok(I(4))>>
    /\ out = <<Some(Err("NotNumeric")), Some(Ok(I(3))), None, None>>
    /\ head.ups[1].pulls = 3
    /\ head.calls = 3

(* C9: StepByAdaptor with step n >= 1 emits the pulled values whose index *)
(* among the pulled values is a multiple of n, and every upstream error at *)
(* its position; the values it emits are those it emits with the errors    *)
(* taken out of the stream.                                                *)
C9_StepByEveryNth ==
    head.kind = "StepBy" =>
        LET c == Consumed
            e == NonNone(out)
        IN /\ head.n >= 1
           /\ ThenNones(out, e)
           /\ e = EveryNth(c, head.n, 0)
           /\ SelectSeq(e, IsOk) = EveryNth(SelectSeq(c, ItemOk), head.n, 0)

C9_Witness ==
    /\ head.kind = "StepBy"
    /\ head.n = 2
    /\ head.ups[1].items = <<Ok(I(3)), Err("E1"), Ok(I(4))>>
    /\ out = <<Some(Ok(I(3))), Some(Err("E1")), None>>

(* C10: step_by(0) fails with ZeroStepSize for the Sequence and for the   *)
(* Producer, at the call and with no item pulled from the Producer; a step *)
(* of 1 or more gives ZeroStepSize neither at the call nor at the collect. *)
C10_ZeroStepSize ==
    call.op = "step_by" =>
        IF call.n = 0
        THEN /\ ~resP.ok /\ resP.e = "ZeroStepSize"
             /\ resP.p.items = input /\ SrcPulls(resP.p) = 0
             /\ Clean(input) => (~resS.ok /\ resS.e = "ZeroStepSize")
        ELSE /\ resP.ok /\ endP.e # "ZeroStepSize"
             /\ Clean(input) => (resS.ok /\ endS.e # "ZeroStepSize")

C10_Witness ==
    /\ call.op = "step_by"
    /\ call.n = 0
    /\ Clean(input)
    /\ Len(input) = 2
    /\ resS.e = "ZeroStepSize"
    /\ resP.e = "ZeroStepSize"
    /\ resP.p.pulls = 0

\* The pairs [a_i, b_i] of two lists, up to the end of the shorter one.
ZipPairs(a, b) ==
    [i \in 1..(IF Len(a) < Len(b) THEN Len(a) ELSE Len(b)) |-> Sq(<<a[i], b[i]>>)]

(* C11: zip of two error-free lists a and b, collected, is the list of    *)
(* the pairs [a_i, b_i] in order, as long as the shorter of the two, for   *)
(* two Sequences and for two Producers alike, and the zip adaptor left     *)
(* behind returns end-of-stream on a further pull.                         *)
C11_ZipPairsUpToShorter ==
    (call.op = "zip" /\ call.collected /\ Clean(input)) =>
        LET a == ValuesOf(input)
            b == call.ys
            shorter == IF Len(a) < Len(b) THEN Len(a) ELSE Len(b)
        IN /\ endS.ok /\ endS.val = ZipPairs(a, b) /\ Len(endS.val) = shorter
           /\ endP.ok /\ endP.val = ZipPairs(a, b) /\ Len(endP.val) = shorter
           /\ resP.il.lazy /\ ~resS.il.lazy
           /\ StreamAdaptor_next(resS.p).r = None
           /\ StreamAdaptor_next(endP.p).r = None

C11_Witness ==
    /\ call.op = "zip"
    /\ call.collected
    /\ input = <<Ok(I(3)), Ok(I(4)), Ok(I(3))>>
    /\ call.ys = <<I(4), SeqV>>
    /\ endS.val = <<Sq(<<I(3), I(4)>>), Sq(<<I(4), SeqV>>)>>
    /\ endP.val = endS.val
    /\ endP.p.kind = "Zip"
    /\ endP.p.ups[1].pos = 3

\* The results as the consumer sees them: each wrapped in Some.
Somes(xs) == [i \in 1..Len(xs) |-> Some(xs[i])]

\* What a source has handed out so far.
HandedOut(src) == SubSeq(src.items, 1, src.pos)

(* C12: ChainAdaptor emits what its first stream hands out, in order,     *)
(* followed by what its second stream hands out, in order; the second is   *)
(* not pulled until the first has returned end-of-stream (an error of the  *)
(* first does not switch over), and the first is pulled exactly once past  *)
(* its last item: after the switch it is never pulled again.               *)
C12_ChainFirstThenSecond ==
    head.kind = "Chain" =>
        LET A == head.ups[1]
            B == head.ups[2]
            e == NonNone(out)
        IN /\ ThenNones(out, e)
           /\ e = Somes(HandedOut(A) \o HandedOut(B))
           /\ A.pulls <= Len(A.items) + 1
           /\ head.flag = (A.pulls = Len(A.items) + 1)
           /\ ~head.flag => B.pulls = 0
           /\ head.flag => (A.pos = Len(A.items) /\ B.pulls = Len(out) - Len(A.items))
           /\ ~head.flag => A.pulls = Len(out)

C12_Witness ==
    /\ head.kind = "Chain"
    /\ head.ups[1].items = <<Ok(I(3)), Err("E1"), Ok(I(4))>>
    /\ head.ups[2].items = <<Err("E2"), Ok(I(3))>>
    /\ out = <<Some(Ok(I(3))), Some(Err("E1")), Some(Ok(I(4))),
               Some(Err("E2")), Some(Ok(I(3))), None, None>>
    /\ head.ups[1].pulls = 4
    /\ head.ups[2].pulls = 4

\* The first k items of xs (all of them when there are fewer).
FirstOf(xs, k) == SubSeq(xs, 1, IF k < Len(xs) THEN k ELSE Len(xs))

\* The items of xs after the first k (none when there are fewer).
AfterFirst(xs, k) == IF k >= Len(xs) THEN <<>> ELSE SubSeq(xs, k + 1, Len(xs))

(* C13: SkipAdaptor(n) consumes the first n upstream positions: of these  *)
(* the values are discarded and the errors are emitted, one per pull, and  *)
(* count toward n; every position after the n-th is emitted unchanged.     *)
(* When the stream has at most n positions only the errors among them are  *)
(* emitted.                                                                *)
C13_SkipCountsErrors ==
    head.kind = "Skip" =>
        LET c == Consumed
            e == NonNone(out)
            skipped == FirstOf(c, head.n)
        IN /\ ThenNones(out, e)
           /\ e = Somes(SelectSeq(skipped, LAMBDA x : ~x.ok) \o AfterFirst(c, head.n))
           /\ head.curr = (IF head.ups[1].pulls < head.n THEN head.ups[1].pulls ELSE head.n)

C13_Witness ==
    /\ head.kind = "Skip"
    /\ head.n = 2
    /\ head.ups[1].items = <<Err("E1"), Ok(I(3)), Ok(I(4))>>
    /\ out = <<Some(Err("E1")), Some(Ok(I(4))), None>>

(* C14: TakeAdaptor(n) emits the first min(n, length) upstream positions, *)
(* values and errors alike, and end-of-stream on every later pull; it      *)
(* pulls the upstream once for each of its own first n pulls and never     *)
(* again, also when the upstream still has items left.                     *)
C14_TakeFirstN ==
    head.kind = "Take" =>
        LET src == head.ups[1]
            e == NonNone(out)
            quota == IF head.n < Len(src.items) THEN head.n ELSE Len(src.items)
        IN /\ ThenNones(out, e)
           /\ e = Somes(Consumed)
           /\ e = Somes(FirstOf(src.items, src.pulls))
           /\ Len(e) <= quota
           /\ Ends(out) > 0 => Len(e) = quota
           /\ src.pulls = (IF Len(out) < head.n THEN Len(out) ELSE head.n)
           /\ head.curr = src.pulls

C14_Witness ==
    /\ head.kind = "Take"
    /\ head.n = 2
    /\ head.ups[1].items = <<Err("E1"), Ok(I(3)), Ok(I(4))>>
    /\ out = <<Some(Err("E1")), Some(Ok(I(3))), None, None, None>>
    /\ head.ups[1].pulls = 2

(* C15: on a Sequence xs of length L, skip(n) is the Sequence of the last *)
(* L - n elements in order (empty when n >= L) and take(n) the Sequence of *)
(* the first min(n, L) elements (all of xs when n >= L), so that take(n)   *)
(* followed by skip(n) is xs again.                                        *)
C15_SkipTakeSplit ==
    (call.op \in {"skip", "take"} /\ Clean(input)) =>
        LET xs == ValuesOf(input)
            n == call.n
            L == Len(xs)
            sk == skip(Sequence(xs), n)
            tk == take(Sequence(xs), n)
        IN /\ call.op = "skip" => resS = sk
           /\ call.op = "take" => resS = tk
           /\ sk.ok /\ is_eager(sk.il)
           /\ tk.ok /\ is_eager(tk.il)
           /\ sk.il.s = [i \in 1..(IF n >= L THEN 0 ELSE L - n) |-> xs[n + i]]
           /\ tk.il.s = [i \in 1..(IF n >= L THEN L ELSE n) |-> xs[i]]
           /\ n >= L => (sk.il.s = <<>> /\ tk.il.s = xs)
           /\ tk.il.s \o sk.il.s = xs

C15_Witness ==
    /\ call.op = "skip"
    /\ call.n = 1
    /\ input = <<Ok(I(3)), Ok(SeqV), Ok(I(4))>>
    /\ resS.il = Sequence(<<SeqV, I(4)>>)
    /\ take(SeqIn, call.n).il = Sequence(<<I(3)>>)

---------------------------------------------------------------------------
(* SpecFlat: Flatten, Dedup or Unique over a source of nested and repeated *)
(* values, pulled to its end and beyond.                                    *)

MaxFlatLen == 3

\* Values nested zero, one and two levels deep, and a stream error.
ItemsF == {Ok(I(3)), Ok(Sq(<<>>)), Ok(SeqV), Ok(Sq(<<Sq(<<I(3)>>)>>)), Err("E1")}

\* [[1,2],[3,4],[5]] and [1,1,1,2,2,3,3,3,1]
NestedExample ==
    <<Ok(Sq(<<I(1), I(2)>>)), Ok(Sq(<<I(3), I(4)>>)), Ok(Sq(<<I(5)>>))>>
RepeatsExample ==
    <<Ok(I(1)), Ok(I(1)), Ok(I(1)), Ok(I(2)), Ok(I(2)), Ok(I(3)), Ok(I(3)), Ok(I(3)), Ok(I(1))>>

InitFlat ==
    /\ head \in {Raw(s) : s \in SeqsUpTo(ItemsF, MaxFlatLen) \cup {NestedExample, RepeatsExample}}
    /\ out = <<>>
    /\ input = <<>>
    /\ call = NoCall
    /\ resS = NoRes
    /\ resP = NoRes
    /\ endS = NoRes
    /\ endP = NoRes

NextFlat ==
    \/ NewFlatten(1)
    \/ NewDedup(1)
    \/ NewUnique(1)
    \/ Pull

SpecFlat == InitFlat /\ [][NextFlat]_vars

\* xs with every Sequence value replaced by its elements: one level removed.
RECURSIVE OneLevelRemoved(_)
OneLevelRemoved(xs) ==
    IF xs = <<>> THEN <<>>
    ELSE (IF Head(xs).ok /\ Head(xs).v.k = "Seq"
          THEN [i \in 1..Len(Head(xs).v.s) |-> Ok(Head(xs).v.s[i])]
          ELSE <<Head(xs)>>)
         \o OneLevelRemoved(Tail(xs))

(* C16: FlattenAdaptor removes exactly one nesting level.  What it has    *)
(* emitted, followed by what waits in its queue, is what its upstream has  *)
(* handed out with each Sequence replaced by its elements in order (an     *)
(* empty one by nothing), each other value and each error at its position, *)
(* and an element that is itself a Sequence left intact; at end-of-stream  *)
(* the queue is empty and the whole upstream has been handed out.          *)
C16_FlattenOneLevel ==
    head.kind = "Flatten" =>
        LET e == NonNone(out)
            queued == [i \in 1..Len(head.q) |-> Ok(head.q[i])]
        IN /\ ThenNones(out, e)
           /\ e \o Somes(queued) = Somes(OneLevelRemoved(Consumed))
           /\ Ends(out) > 0 => (head.q = <<>> /\ Consumed = head.ups[1].items)
           /\ (head.ups[1].items = NestedExample /\ Ends(out) > 0) =>
                  e = Somes(<<Ok(I(1)), Ok(I(2)), Ok(I(3)), Ok(I(4)), Ok(I(5))>>)
           /\ (head.ups[1].items = <<Ok(Sq(<<Sq(<<I(3)>>)>>))>> /\ Ends(out) > 0) =>
                  e = <<Some(Ok(Sq(<<I(3)>>)))>>

C16_Witness ==
    /\ head.kind = "Flatten"
    /\ head.ups[1].items = <<Ok(Sq(<<>>)), Ok(Sq(<<Sq(<<I(3)>>)>>)), Ok(SeqV)>>
    /\ out = <<Some(Ok(Sq(<<I(3)>>))), Some(Ok(I(3))), Some(Ok(I(4))), None>>

\* The values among results, in order.
OkValues(xs) == LET oks == SelectSeq(xs, ItemOk) IN [i \in 1..Len(oks) |-> oks[i].v]

\* xs without each value equal to the value kept last before it (prev at
\* the start); errors stay and change nothing.
RECURSIVE WithoutRuns(_, _)
WithoutRuns(xs, prev) ==
    IF xs = <<>> THEN <<>>
    ELSE IF ~Head(xs).ok THEN <<Head(xs)>> \o WithoutRuns(Tail(xs), prev)
    ELSE IF Some(Head(xs).v) = prev THEN WithoutRuns(Tail(xs), prev)
    ELSE <<Head(xs)>> \o WithoutRuns(Tail(xs), Some(Head(xs).v))

(* C17: DedupAdaptor emits a value iff it differs from the value emitted  *)
(* last before it: no two values emitted one after the other are equal, a  *)
(* repeat that is not adjacent is kept, and an error passes through        *)
(* without resetting the remembered value, which is always the value       *)
(* emitted last.  [1,1,1,2,2,3,3,3,1] gives [1,2,3,1].                     *)
C17_DedupConsecutive ==
    head.kind = "Dedup" =>
        LET e == NonNone(out)
            kept == WithoutRuns(Consumed, None)
            vals == OkValues(kept)
        IN /\ ThenNones(out, e)
           /\ e = Somes(kept)
           /\ \A i \in 1..Len(vals) - 1 : vals[i] # vals[i + 1]
           /\ head.last = (IF vals = <<>> THEN None ELSE Some(vals[Len(vals)]))
           /\ (head.ups[1].items = RepeatsExample /\ Ends(out) > 0) =>
                  e = Somes(<<Ok(I(1)), Ok(I(2)), Ok(I(3)), Ok(I(1))>>)

C17_Witness ==
    /\ head.kind = "Dedup"
    /\ head.ups[1].items = <<Ok(I(3)), Err("E1"), Ok(I(3))>>
    /\ out = <<Some(Ok(I(3))), Some(Err("E1")), None>>
    /\ head.last = Some(I(3))

\* The set of the elements of a sequence.
Range(s) == {s[i] : i \in 1..Len(s)}

\* xs without each value that occurs earlier in xs (or is in seen); errors stay.
RECURSIVE FirstOccurrences(_, _)
FirstOccurrences(xs, seen) ==
    IF xs = <<>> THEN <<>>
    ELSE IF ~Head(xs).ok THEN <<Head(xs)>> \o FirstOccurrences(Tail(xs), seen)
    ELSE IF Head(xs).v \in seen THEN FirstOccurrences(Tail(xs), seen)
    ELSE <<Head(xs)>> \o FirstOccurrences(Tail(xs), seen \cup {Head(xs).v})

(* C18: UniqueAdaptor emits a value exactly the first time it occurs in   *)
(* the stream: the values emitted are pairwise distinct, in the order of   *)
(* their first occurrence, and are all the distinct values handed out by   *)
(* the upstream; the seen-set is at every point the set of the values      *)
(* emitted so far; errors pass through and are not recorded.               *)
(* [1,1,1,2,2,3,3,3,1] gives [1,2,3].                                      *)
C18_UniqueFirstOccurrence ==
    head.kind = "Unique" =>
        LET c == Consumed
            e == NonNone(out)
            kept == FirstOccurrences(c, {})
            vals == OkValues(kept)
        IN /\ ThenNones(out, e)
           /\ e = Somes(kept)
           /\ \A i, j \in 1..Len(vals) : vals[i] = vals[j] => i = j
           /\ Range(vals) = Range(OkValues(c))
           /\ head.seen = Range(vals)
           /\ SelectSeq(kept, LAMBDA x : ~x.ok) = SelectSeq(c, LAMBDA x : ~x.ok)
           /\ (head.ups[1].items = RepeatsExample /\ Ends(out) > 0) =>
                  e = Somes(<<Ok(I(1)), Ok(I(2)), Ok(I(3))>>)

C18_Witness ==
    /\ head.kind = "Unique"
    /\ head.ups[1].items = <<Ok(I(3)), Ok(SeqV), Ok(I(3))>>
    /\ out = <<Some(Ok(I(3))), Some(Ok(SeqV)), None>>
    /\ head.seen = {SeqV, I(3)}

\* dedup or unique applied to the outcome of an earlier call, then collected.
AppliedAgain(op, first_call) ==
    IF ~first_call.ok THEN first_call
    ELSE LET again == IF op = "dedup" THEN dedup(first_call.il) ELSE unique(first_call.il)
         IN IF again.ok THEN collect(again.il) ELSE again

(* C19: for an error-free list, unique applied to the outcome of unique   *)
(* gives the list unique gives, and dedup applied to the outcome of dedup  *)
(* gives the list dedup gives, for the Sequence and for a Producer alike.  *)
C19_DedupUniqueIdempotent ==
    (call.op \in {"dedup", "unique"} /\ call.collected /\ Clean(input)) =>
        LET twiceS == AppliedAgain(call.op, resS)
            twiceP == AppliedAgain(call.op, resP)
        IN /\ endS.ok /\ endP.ok
           /\ is_eager(resS.il) /\ is_lazy(resP.il)
           /\ twiceS.ok /\ twiceS.val = endS.val
           /\ twiceP.ok /\ twiceP.val = endP.val

C19_Witness ==
    /\ call.op = "dedup"
    /\ call.collected
    /\ input = <<Ok(I(3)), Ok(I(3)), Ok(I(4))>>
    /\ endS.val = <<I(3), I(4)>>
    /\ endP.val = <<I(3), I(4)>>
    /\ AppliedAgain("dedup", resP).val = <<I(3), I(4)>>
    /\ AppliedAgain("dedup", resP).p.ups[1].kind = "Dedup"

AllIntegers(xs) == \A i \in 1..Len(xs) : xs[i].k = "Int"
AllNumbers(xs) == \A i \in 1..Len(xs) : IsNumeric(xs[i])

\* The largest scale among numbers, their sum at that scale, their product
\* and the sum of their scales (an Integer has scale 0).
RECURSIVE LargestScale(_)
LargestScale(xs) ==
    IF xs = <<>> THEN 0
    ELSE LET r == LargestScale(Tail(xs)) IN IF Head(xs).sc > r THEN Head(xs).sc ELSE r

RECURSIVE TotalAtScale(_, _)
TotalAtScale(xs, sc) ==
    IF xs = <<>> THEN 0 ELSE Head(xs).n * Pow10(sc - Head(xs).sc) + TotalAtScale(Tail(xs), sc)

RECURSIVE ProductOfDigits(_)
ProductOfDigits(xs) == IF xs = <<>> THEN 1 ELSE Head(xs).n * ProductOfDigits(Tail(xs))

RECURSIVE SumOfScales(_)
SumOfScales(xs) == IF xs = <<>> THEN 0 ELSE Head(xs).sc + SumOfScales(Tail(xs))

\* The number sum / prod is to give for a list of numbers.
Aggregate(op, xs) ==
    IF AllIntegers(xs)
    THEN I(IF op = "sum" THEN TotalAtScale(xs, 0) ELSE ProductOfDigits(xs))
    ELSE IF op = "sum" THEN Dec(TotalAtScale(xs, LargestScale(xs)), LargestScale(xs))
    ELSE Dec(ProductOfDigits(xs), SumOfScales(xs))

(* C20: sum of an empty input is Integer(0) and prod of an empty input is *)
(* Integer(1); over integers only the result is the Integer sum / product; *)
(* with a Decimal at any position among numbers it is the Decimal sum /    *)
(* product; an element that is not a number makes the operation fail with  *)
(* NotNumeric.  The Sequence and the Producer over the list agree.         *)
C20_SumProd ==
    (call.op \in {"sum", "prod"} /\ Clean(input)) =>
        LET xs == ValuesOf(input)
        IN /\ resS.ok = resP.ok /\ resS.val = resP.val /\ resS.e = resP.e
           /\ xs = <<>> => (resS.ok /\ resS.val = (IF call.op = "sum" THEN I(0) ELSE I(1)))
           /\ AllNumbers(xs) => (resS.ok /\ resS.val = Aggregate(call.op, xs))
           /\ (AllNumbers(xs) /\ AllIntegers(xs)) => resS.val.k = "Int"
           /\ (AllNumbers(xs) /\ ~AllIntegers(xs)) => resS.val.k = "Dec"
           /\ ~AllNumbers(xs) => (~resS.ok /\ resS.e = "NotNumeric")

C20_Witness ==
    /\ call.op = "prod"
    /\ input = <<Ok(I(3)), Ok(I(4)), Ok(Dec(35, 1))>>
    /\ resS.ok /\ resP.ok
    /\ resS.val = Dec(42, 0)
    /\ resP.val.k = "Dec"

\* a <= b by numeric value, for numbers of either representation.
NotAbove(a, b) == a.n * Pow10(b.sc) <= b.n * Pow10(a.sc)

(* C21: min_in / max_in of an error-free list of numbers is an element of  *)
(* the list that no element is below / above by numeric value, Integers    *)
(* and Decimals compared by value, so on one element it is that element;   *)
(* an element that is not a number, the first included, gives NotNumeric;  *)
(* an empty Sequence gives EmptySequence and an empty Producer             *)
(* EmptyProducer.                                                          *)
C21_MinMax ==
    (call.op \in {"min_in", "max_in"} /\ Clean(input)) =>
        LET xs == ValuesOf(input)
        IN /\ xs = <<>> =>
                /\ ~resS.ok /\ resS.e = "EmptySequence"
                /\ ~resP.ok /\ resP.e = "EmptyProducer"
           /\ (xs # <<>> /\ ~AllNumbers(xs)) =>
                /\ ~resS.ok /\ resS.e = "NotNumeric"
                /\ ~resP.ok /\ resP.e = "NotNumeric"
           /\ (xs # <<>> /\ AllNumbers(xs)) =>
                /\ resS.ok /\ resP.ok /\ resS.val = resP.val
                /\ resS.val \in Range(xs)
                /\ call.op = "min_in" => \A i \in 1..Len(xs) : NotAbove(resS.val, xs[i])
                /\ call.op = "max_in" => \A i \in 1..Len(xs) : NotAbove(xs[i], resS.val)
                /\ Len(xs) = 1 => resS.val = xs[1]

C21_Witness ==
    /\ call.op = "max_in"
    /\ input = <<Ok(I(3)), Ok(Dec(35, 1)), Ok(I(3))>>
    /\ resS.ok /\ resP.ok
    /\ resS.val = Dec(35, 1)
    /\ resP.val = Dec(35, 1)

\* s and t hold the same elements, each as often.
IsPermutation(s, t) ==
    /\ Len(s) = Len(t)
    /\ \A x \in Range(s) \cup Range(t) : Occurrences(s, x) = Occurrences(t, x)

(* C22: sort of an error-free list of Integers and Decimals is a           *)
(* permutation of the list in non-decreasing order by numeric value        *)
(* (an Integer and a Decimal compared by value), the same list for the     *)
(* Sequence and for the Producer; a stream error makes sort return that    *)
(* error.                                                                  *)
C22_SortAscending ==
    call.op = "sort" =>
        /\ (Clean(input) /\ AllNumbers(ValuesOf(input))) =>
              /\ resS.ok /\ resP.ok /\ resS.val = resP.val
              /\ IsPermutation(resS.val, ValuesOf(input))
              /\ \A i \in 1..Len(resS.val) - 1 : NotAbove(resS.val[i], resS.val[i + 1])
        /\ ~Clean(input) => (~resP.ok /\ resP.e = input[FirstErr(input) + 1].e)

C22_Witness ==
    /\ call.op = "sort"
    /\ input = <<Ok(I(4)), Ok(Dec(35, 1)), Ok(I(3))>>
    /\ resS.val = <<I(3), Dec(35, 1), I(4)>>
    /\ resP.val = <<I(3), Dec(35, 1), I(4)>>

\* 1-based position of the first value of s that differs from the first
\* item of s, a value (0: none).
FirstDiffering(s) ==
    LET D == {i \in 2..Len(s) : s[1].ok /\ s[i].ok /\ s[i].v # s[1].v}
    IN IF D = {} THEN 0 ELSE CHOOSE i \in D : \A j \in D : i <= j

(* C23: all_equal is true for 0 or 1 elements and otherwise true iff every *)
(* element equals the first.  On a Producer it returns false after pulling *)
(* exactly up to the first element that differs from the first (an error   *)
(* after it is not observed); an error before any differing element is     *)
(* returned, after pulling exactly up to it.                               *)
C23_AllEqual ==
    call.op = "all_equal" =>
        LET xs == ValuesOf(input)
            d == FirstDiffering(input)
            k == FirstErr(input)
        IN /\ Clean(input) =>
                /\ resS.ok /\ resP.ok /\ resS.val = resP.val
                /\ resS.val = (\A i \in 1..Len(xs) : xs[i] = xs[1])
                /\ Len(xs) <= 1 => resS.val = TRUE
           /\ IF k < Len(input) /\ (d = 0 \/ k + 1 < d)
              THEN ~resP.ok /\ resP.e = input[k + 1].e /\ SrcPulls(resP.p) = k + 1
              ELSE IF d > 0
              THEN resP.ok /\ resP.val = FALSE /\ SrcPulls(resP.p) = d
              ELSE resP.ok /\ resP.val = TRUE /\ SrcPulls(resP.p) = Len(input) + 1

C23_Witness ==
    /\ call.op = "all_equal"
    /\ input = <<Ok(I(3)), Ok(Dec(3, 0)), Err("E1")>>
    /\ resP.ok
    /\ resP.val = FALSE
    /\ SrcPulls(resP.p) = 2

(* C24: nth(n) returns the element at 0-based index n, or OutOfBounds when *)
(* the input has at most n elements.  On a Producer an error at a position *)
(* up to and including n is returned instead, and no position after n is   *)
(* pulled: an error there is not observed.                                 *)
C24_Nth ==
    call.op = "nth" =>
        LET n == call.n
            k == FirstErr(input)
        IN /\ Clean(input) =>
                IF n < Len(input)
                THEN resS.ok /\ resS.val = input[n + 1].v
                ELSE ~resS.ok /\ resS.e = "OutOfBounds"
           /\ IF k < Len(input) /\ k <= n
              THEN ~resP.ok /\ resP.e = input[k + 1].e /\ SrcPulls(resP.p) = k + 1
              ELSE IF n < Len(input)
              THEN resP.ok /\ resP.val = input[n + 1].v /\ SrcPulls(resP.p) = n + 1
              ELSE ~resP.ok /\ resP.e = "OutOfBounds" /\ SrcPulls(resP.p) = Len(input) + 1

C24_Witness ==
    /\ call.op = "nth"
    /\ call.n = 1
    /\ input = <<Ok(I(3)), Ok(SeqV), Err("E1")>>
    /\ resP.ok
    /\ resP.val = SeqV
    /\ SrcPulls(resP.p) = 2

\* The error a scan meets at an item: the stream's or the predicate's ("-": none).
ScanError(x, fn) ==
    IF ~x.ok THEN x.e
    ELSE IF ~UnaryPredicate_process(fn, x.v).ok THEN UnaryPredicate_process(fn, x.v).e
    ELSE "-"

\* The item decides the scan: the predicate answers false for all, true for
\* any, find and position.
Decides(op, x, fn) ==
    /\ ScanError(x, fn) = "-"
    /\ UnaryPredicate_process(fn, x.v).b = (op # "all")

\* 1-based position of the first item that decides the scan or is an error (0: none).
FirstStop(op, s, fn) ==
    LET T == {i \in 1..Len(s) : Decides(op, s[i], fn) \/ ScanError(s[i], fn) # "-"}
    IN IF T = {} THEN 0 ELSE CHOOSE i \in T : \A j \in T : i <= j

(* C25: all, any, find and position scan from the front and stop at the    *)
(* first deciding element (predicate false for all, true for any, find and *)
(* position): all / any return false / true, find the element, position    *)
(* its 0-based index.  With no deciding element all is true, any is false  *)
(* and find / position fail with ItemNotFound.  A stream or predicate      *)
(* error before the deciding element is returned; nothing after the        *)
(* element that stopped the scan is pulled.  The Sequence agrees with the  *)
(* Producer on an error-free list.                                         *)
C25_Scans ==
    call.op \in {"all", "any", "find", "position"} =>
        LET t == FirstStop(call.op, input, call.fn)
        IN /\ Clean(input) =>
                (resS.ok = resP.ok /\ resS.val = resP.val /\ resS.e = resP.e)
           /\ t = 0 =>
                /\ SrcPulls(resP.p) = Len(input) + 1
                /\ call.op = "all" => (resP.ok /\ resP.val = TRUE)
                /\ call.op = "any" => (resP.ok /\ resP.val = FALSE)
                /\ call.op \in {"find", "position"} => (~resP.ok /\ resP.e = "ItemNotFound")
           /\ t > 0 =>
                /\ SrcPulls(resP.p) = t
                /\ ~Decides(call.op, input[t], call.fn) =>
                      (~resP.ok /\ resP.e = ScanError(input[t], call.fn))
                /\ Decides(call.op, input[t], call.fn) =>
                      /\ resP.ok
                      /\ call.op = "all" => resP.val = FALSE
                      /\ call.op = "any" => resP.val = TRUE
                      /\ call.op = "find" => resP.val = input[t].v
                      /\ call.op = "position" => resP.val = t - 1

C25_Witness ==
    /\ call.op = "position"
    /\ call.fn = "is_even_int"
    /\ input = <<Ok(I(3)), Ok(I(4)), Ok(SeqV)>>
    /\ resS.ok /\ resS.val = 1
    /\ resP.ok /\ resP.val = 1
    /\ SrcPulls(resP.p) = 2

(* C26: first returns the first element, of a Producer after pulling       *)
(* exactly one position (an error at a later position is not observed);    *)
(* last returns the final element only if no position is an error and      *)
(* otherwise the first error; on empty input both fail, with EmptySequence *)
(* for a Sequence and EmptyProducer for a Producer.                        *)
C26_FirstLast ==
    call.op \in {"first", "last"} =>
        LET k == FirstErr(input)
            L == Len(input)
        IN /\ L = 0 =>
                /\ ~resS.ok /\ resS.e = "EmptySequence"
                /\ ~resP.ok /\ resP.e = "EmptyProducer"
           /\ (L > 0 /\ Clean(input)) =>
                (resS.ok /\ resS.val = (IF call.op = "first" THEN input[1].v ELSE input[L].v))
           /\ (L > 0 /\ call.op = "first") =>
                /\ SrcPulls(resP.p) = 1
                /\ resP.p.pos = 1
                /\ input[1].ok => (resP.ok /\ resP.val = input[1].v)
                /\ ~input[1].ok => (~resP.ok /\ resP.e = input[1].e)
           /\ (L > 0 /\ call.op = "last") =>
                IF k < L
                THEN ~resP.ok /\ resP.e = input[k + 1].e /\ SrcPulls(resP.p) = k + 1
                ELSE resP.ok /\ resP.val = input[L].v /\ SrcPulls(resP.p) = L + 1

C26_Witness ==
    /\ call.op = "first"
    /\ input = <<Ok(I(4)), Err("E1"), Ok(I(3))>>
    /\ resP.ok
    /\ resP.val = I(4)
    /\ SrcPulls(resP.p) = 1

(* C27: flatten, dedup, unique, filter, map, step_by, skip and take return *)
(* a Sequence for a Sequence and a Producer for a Producer (whenever they  *)
(* return an IterableLike at all); chain and zip return a Sequence when    *)
(* both operands are Sequences and a Producer when either is a Producer.   *)
C27_RepresentationKind ==
    /\ call.op \in {"flatten", "dedup", "unique", "filter", "map", "step_by", "skip", "take"} =>
          /\ (Clean(input) /\ resS.ok) => is_eager(resS.il)
          /\ resP.ok => is_lazy(resP.il)
          /\ ~(call.op = "step_by" /\ call.n = 0) => resP.ok
          /\ (Clean(input) /\ call.op \in {"flatten", "dedup", "unique", "skip", "take"}) => resS.ok
    /\ call.op \in {"chain", "zip"} =>
          /\ Clean(input) => (resS.ok /\ is_eager(resS.il))
          /\ resP.ok /\ is_lazy(resP.il)
    /\ call.op \in {"chain_mixed", "zip_mixed"} =>
          /\ Clean(input) => (resS.ok /\ is_lazy(resS.il))
          /\ resP.ok /\ is_lazy(resP.il)

C27_Witness ==
    /\ call.op = "zip_mixed"
    /\ input = <<Ok(I(3)), Ok(I(4))>>
    /\ call.ys = <<SeqV>>
    /\ is_lazy(resS.il)
    /\ resS.il.p.kind = "Zip"
    /\ is_lazy(resP.il)

\* The predicate or converter of a combinator fails on the item.
TestFails(op, fn, x) ==
    IF op = "map" THEN ~UnaryConverter_process(fn, x.v).ok ELSE PredicateFails(x, fn)

\* The smallest element of a non-empty set of numbers.
Least(S) == CHOOSE i \in S : \A j \in S : i <= j

(* C28: for a Producer, a combinator call pulls no item from an upstream   *)
(* and invokes no predicate or converter: it returns an adaptor over the   *)
(* untouched upstream.  For a Sequence, filter, map, skip_while and        *)
(* take_while run inside the call until their adaptor is exhausted and     *)
(* return the finished list, or, when the predicate / converter fails on   *)
(* an element they test, that error and no list.                           *)
C28_DeferredOrEager ==
    /\ call.op \in Combinators \cup {"chain_mixed", "zip_mixed"} =>
          /\ ~(call.op = "step_by" /\ call.n = 0) => resP.ok
          /\ resP.ok =>
                /\ is_lazy(resP.il)
                /\ SrcPulls(resP.il.p) = 0
                /\ Calls(resP.il.p) = 0
                /\ resP.il.p.ups[1] = Raw(input)
          /\ (call.op \in {"chain_mixed", "zip_mixed"} /\ Clean(input)) =>
                (SrcPulls(resS.il.p) = 0 /\ resS.il.p.ups[2] = Fixed(call.ys))
    /\ (call.op \in {"filter", "map", "skip_while", "take_while"} /\ Clean(input)) =>
          LET K == IF call.op \in {"skip_while", "take_while"}
                   THEN FirstFalse(input, call.fn) ELSE 0
              tested == IF K = 0 THEN input ELSE SubSeq(input, 1, K)
              F == {i \in 1..Len(tested) : TestFails(call.op, call.fn, tested[i])}
          IN IF F = {}
             THEN /\ resS.ok
                  /\ is_eager(resS.il)
                  /\ Calls(resS.p) = Len(tested)
                  /\ StreamAdaptor_next(resS.p).r = None
             ELSE /\ ~resS.ok
                  /\ resS.e = "NotNumeric"
                  /\ resS.il = Sequence(<<>>)
                  /\ Calls(resS.p) = Least(F)

C28_Witness ==
    /\ call.op = "skip_while"
    /\ call.fn = "is_lt_4_int"
    /\ input = <<Ok(I(3)), Ok(SeqV), Ok(I(4))>>
    /\ ~resS.ok /\ resS.e = "NotNumeric"
    /\ Calls(resS.p) = 2
    /\ resP.ok /\ is_lazy(resP.il)
    /\ SrcPulls(resP.il.p) = 0
    /\ Calls(resP.il.p) = 0

(* C29: skip_while and take_while preserve the eagerness of their input:   *)
(* for a Sequence they return a Sequence (or the predicate's error and     *)
(* nothing), for a Producer they return a Producer.                        *)
C29_WhileKeepsEagerness ==
    call.op \in {"skip_while", "take_while"} =>
        /\ resP.ok /\ is_lazy(resP.il) /\ ~is_eager(resP.il)
        /\ resP.il.p.kind = (IF call.op = "skip_while" THEN "SkipWhile" ELSE "TakeWhile")
        /\ Clean(input) =>
              IF resS.ok THEN is_eager(resS.il) /\ ~is_lazy(resS.il)
              ELSE resS.e = "NotNumeric"

C29_Witness ==
    /\ call.op = "take_while"
    /\ call.fn = "is_lt_4_int"
    /\ input = <<Ok(I(3)), Ok(I(4)), Ok(I(3))>>
    /\ resS.ok /\ resS.il = Sequence(<<I(3)>>)
    /\ resP.ok /\ is_lazy(resP.il)

(* C30: IntersperseAdaptor alternates turns, starting with a real turn.    *)
(* Its odd pulls are real turns: the k-th of them returns what the         *)
(* upstream returns to its k-th pull, so end-of-stream first on the first  *)
(* real turn that finds the upstream exhausted.  Its even pulls are        *)
(* separator turns and return the separator, so every upstream item        *)
(* emitted, the last included, is followed by a separator.                 *)
C30_IntersperseTurns ==
    head.kind = "Intersperse" =>
        LET src == head.ups[1]
            L == Len(src.items)
        IN /\ head.flag = (Len(out) % 2 = 1)
           /\ src.pulls = (Len(out) + 1) \div 2
           /\ \A i \in 1..Len(out) :
                 IF i % 2 = 1
                 THEN out[i] = (IF (i + 1) \div 2 <= L THEN Some(src.items[(i + 1) \div 2]) ELSE None)
                 ELSE out[i] = Some(Ok(head.sep))
           /\ Ends(out) > 0 =>
                 /\ Len(out) >= 2 * L + 1
                 /\ out[2 * L + 1] = None
                 /\ \A i \in 1..(2 * L) : out[i] # None

C30_Witness ==
    /\ head.kind = "Intersperse"
    /\ head.ups[1].items = <<Ok(I(3)), Err("E1")>>
    /\ out = <<Some(Ok(I(3))), Some(Ok(Nil)), Some(Err("E1")), Some(Ok(Nil)), None>>

\* What a source returns to its k-th pull.
KthPull(src, k) == IF k <= Len(src.items) THEN Some(src.items[k]) ELSE None

(* C31: InterleaveAdaptor pulls its two streams in turn, A first: its odd  *)
(* pulls return what A returns to its successive pulls and its even pulls  *)
(* what B returns, so it emits a0, b0, a1, b1, ... and returns             *)
(* end-of-stream first on the first pull whose due stream is exhausted,    *)
(* whatever the other stream still holds.                                  *)
C31_InterleaveTurns ==
    head.kind = "Interleave" =>
        LET A == head.ups[1]
            B == head.ups[2]
            firstEnd == IF Len(A.items) <= Len(B.items)
                        THEN 2 * Len(A.items) + 1 ELSE 2 * Len(B.items) + 2
        IN /\ head.flag = (Len(out) % 2 = 1)
           /\ A.pulls = (Len(out) + 1) \div 2
           /\ B.pulls = Len(out) \div 2
           /\ \A i \in 1..Len(out) :
                 out[i] = (IF i % 2 = 1 THEN KthPull(A, (i + 1) \div 2) ELSE KthPull(B, i \div 2))
           /\ \A i \in 1..Len(out) : i < firstEnd => out[i] # None
           /\ Len(out) >= firstEnd => out[firstEnd] = None

C31_Witness ==
    /\ head.kind = "Interleave"
    /\ head.ups[1].items = <<Ok(I(3)), Ok(SeqV), Ok(I(4))>>
    /\ head.ups[2].items = <<Ok(I(4))>>
    /\ out = <<Some(Ok(I(3))), Some(Ok(I(4))), Some(Ok(SeqV)), None>>
    /\ head.ups[1].pos = 2

---------------------------------------------------------------------------
(* SpecOp: the binary operators of the expression evaluator                *)
(* (scripting/expr/op/op2.rs).  In this specification call holds the       *)
(* operator and its two arguments and resS what the call returned; evals   *)
(* in a result records the expressions evaluated on the way, in order.     *)
(* Arg and Expr (scripting/expr) are not among the sources at hand: an Arg *)
(* is taken to be a value, a producer, a number of items, a predicate, a   *)
(* converter or an expression, and an Expr to evaluate to a value or to    *)
(* fail with an error.                                                     *)

NoExpr == [r |-> "-", mv |-> Nil, e |-> "-"]
ExprValue(mv) == [r |-> "ok", mv |-> mv, e |-> "-"]
ExprFailing(e) == [r |-> "err", mv |-> Nil, e |-> e]

NoArg == [t |-> "-", mv |-> Nil, p |-> Blank, n |-> 0, fn |-> "-", x |-> NoExpr]
ArgValue(mv) == [NoArg EXCEPT !.t = "Value", !.mv = mv]
ArgProducer(p) == [NoArg EXCEPT !.t = "Producer", !.p = p]
ArgUsize(n) == [NoArg EXCEPT !.t = "Usize", !.n = n]
ArgPredicate(fn) == [NoArg EXCEPT !.t = "Predicate", !.fn = fn]
ArgConverter(fn) == [NoArg EXCEPT !.t = "Converter", !.fn = fn]
ArgExpr(x) == [NoArg EXCEPT !.t = "Expr", !.x = x]

\* What Op::process, Op::and, Op::or and Op::xor return.
POk(val, evals) == [ok |-> TRUE, val |-> val, e |-> "-", evals |-> evals]
PErr(e, evals) == [ok |-> FALSE, val |-> NoArg, e |-> e, evals |-> evals]

\* TryFrom<Arg> for IterableLike: a sequence value or a producer.
IterableLike_try_from(o) ==
    CASE o.t = "Value" /\ o.mv.k = "Seq" -> [ok |-> TRUE, il |-> Sequence(o.mv.s), e |-> "-"]
      [] o.t = "Producer" -> [ok |-> TRUE, il |-> Producer(o.p), e |-> "-"]
      [] OTHER -> [ok |-> FALSE, il |-> Sequence(<<>>), e |-> "NotIterable"]

\* Arg::from of an IterableLike: a Sequence becomes a sequence value.
Arg_from_iterable(il) == IF il.lazy THEN ArgProducer(il.p) ELSE ArgValue(Sq(il.s))

\* TryFrom<Arg> for Expr: an expression as it is, a value as the expression
\* that evaluates to it.
Expr_try_from(o) == IF o.t = "Expr" THEN o.x ELSE ExprValue(o.mv)

\* TryFrom<Expr> for bool: evaluates the expression; its value must be a Boolean.
bool_try_from(x) ==
    IF x.r = "err" THEN [ok |-> FALSE, b |-> FALSE, e |-> x.e]
    ELSE IF x.mv.k = "Bul" THEN [ok |-> TRUE, b |-> (x.mv.n = 1), e |-> "-"]
    ELSE [ok |-> FALSE, b |-> FALSE, e |-> "NotBoolean"]

Op_and_evaluating_both(e_a, e_b) ==
    LET b_a == bool_try_from(e_a)
        b_b == bool_try_from(e_b)
    IN IF ~b_a.ok THEN PErr(b_a.e, <<"a">>)
       ELSE IF ~b_b.ok THEN PErr(b_b.e, <<"a", "b">>)
       ELSE POk(ArgValue(Bul(b_a.b /\ b_b.b)), <<"a", "b">>)

\* Ok(e_a.try_into()? && e_b.try_into()?)
Op_and(e_a, e_b) ==
    LET b_a == bool_try_from(e_a)
        b_b == bool_try_from(e_b)
    IN IF ~b_a.ok THEN PErr(b_a.e, <<"a">>)
       ELSE IF ~b_a.b THEN POk(ArgValue(Bul(FALSE)), <<"a">>)
       ELSE IF ~b_b.ok THEN PErr(b_b.e, <<"a", "b">>)
       ELSE POk(ArgValue(Bul(b_b.b)), <<"a", "b">>)

\* Ok(e_a.try_into()? || e_b.try_into()?)
Op_or(e_a, e_b) ==
    LET b_a == bool_try_from(e_a)
        b_b == bool_try_from(e_b)
    IN IF ~b_a.ok THEN PErr(b_a.e, <<"a">>)
       ELSE IF b_a.b THEN POk(ArgValue(Bul(TRUE)), <<"a">>)
       ELSE IF ~b_b.ok THEN PErr(b_b.e, <<"a", "b">>)
       ELSE POk(ArgValue(Bul(b_b.b)), <<"a", "b">>)

Op_xor(e_a, e_b) ==
    LET b_a == bool_try_from(e_a)
        b_b == bool_try_from(e_b)
    IN IF ~b_a.ok THEN PErr(b_a.e, <<"a">>)
       ELSE IF ~b_b.ok THEN PErr(b_b.e, <<"a", "b">>)
       ELSE POk(ArgValue(Bul(b_a.b # b_b.b)), <<"a", "b">>)

UsizeOps == {"Nth", "StepBy", "Skip", "Take"}
PredicateOps == {"All", "Any", "Find", "Position", "Filter", "SkipWhile", "TakeWhile"}
ConverterOps == {"Map"}
IterableOps == {"Chain", "Zip"}
BooleanOps == {"And", "Or", "Xor"}
ComparisonOps == {"Eq", "Ne", "Lt", "Le", "Gt", "Ge"}

\* The method an arm of Op::process dispatches to, and its result as an Arg.
Op_dispatch(op, il, o_b) ==
    LET r == CASE op = "Nth" -> nth(il, o_b.n)
               [] op = "All" -> all(il, o_b.fn)
               [] op = "Any" -> any(il, o_b.fn)
               [] op = "Find" -> find(il, o_b.fn)
               [] op = "Position" -> position(il, o_b.fn)
               [] op = "Filter" -> filter(il, o_b.fn)
               [] op = "Map" -> map(il, o_b.fn)
               [] op = "StepBy" -> step_by(il, o_b.n)
               [] op = "Chain" -> chain(il, IterableLike_try_from(o_b).il)
               [] op = "Zip" -> zip(il, IterableLike_try_from(o_b).il)
               [] op = "Skip" -> skip(il, o_b.n)
               [] op = "Take" -> take(il, o_b.n)
               [] op = "SkipWhile" -> skip_while(il, o_b.fn)
               [] OTHER -> take_while(il, o_b.fn)
    IN IF ~r.ok THEN PErr(r.e, <<>>)
       ELSE CASE op \in {"Nth", "Find"} -> POk(ArgValue(r.val), <<>>)
              [] op \in {"All", "Any"} -> POk(ArgValue(Bul(r.val)), <<>>)
              [] op = "Position" -> POk(ArgUsize(r.val), <<>>)
              [] OTHER -> POk(Arg_from_iterable(r.il), <<>>)

\* Op::process: the comparison operators fall to the catch-all arm.
Op_process(op, o_a, o_b) ==
    CASE op \in UsizeOps \cup PredicateOps \cup ConverterOps \cup IterableOps ->
            LET a == IterableLike_try_from(o_a)
            IN IF ~a.ok THEN PErr(a.e, <<>>)
               ELSE IF op \in IterableOps /\ ~IterableLike_try_from(o_b).ok
                    THEN PErr(IterableLike_try_from(o_b).e, <<>>)
               ELSE Op_dispatch(op, a.il, o_b)
      [] op = "And" -> Op_and(Expr_try_from(o_a), Expr_try_from(o_b))
      [] op = "Or" -> Op_or(Expr_try_from(o_a), Expr_try_from(o_b))
      [] op = "Xor" -> Op_xor(Expr_try_from(o_a), Expr_try_from(o_b))
      [] OTHER -> POk(ArgValue(Nil), <<>>)

\* The arguments the evaluator hands to an operator.
OpValues == {I(3), I(4), Dec(35, 1), Dec(3, 0), Bul(TRUE), Bul(FALSE), SeqV}
OpExprs == {ExprValue(mv) : mv \in {Bul(TRUE), Bul(FALSE), I(3)}} \cup {ExprFailing("E1")}
OpProducers == {Raw(<<Ok(I(3)), Ok(I(4))>>), Raw(<<Ok(I(3)), Err("E1")>>)}

FirstArgs(op) ==
    IF op \in BooleanOps THEN {ArgExpr(x) : x \in OpExprs} \cup {ArgValue(Bul(TRUE))}
    ELSE IF op \in ComparisonOps THEN {ArgValue(mv) : mv \in OpValues}
    ELSE {ArgValue(mv) : mv \in {I(3), SeqV}} \cup {ArgProducer(p) : p \in OpProducers}

SecondArgs(op) ==
    CASE op \in UsizeOps -> {ArgUsize(n) : n \in 0..MaxN}
      [] op \in PredicateOps -> {ArgPredicate(fn) : fn \in Preds}
      [] op \in ConverterOps -> {ArgConverter(fn) : fn \in Convs}
      [] op \in IterableOps -> {ArgValue(I(3)), ArgValue(SeqV), ArgProducer(Raw(<<Ok(I(4))>>))}
      [] op \in BooleanOps -> {ArgExpr(x) : x \in OpExprs} \cup {ArgValue(Bul(FALSE))}
      [] OTHER -> {ArgValue(mv) : mv \in OpValues}

NoOpCall == [op |-> "-", a |-> NoArg, b |-> NoArg]
NoOpRes == PErr("n/a", <<>>)

InitOp ==
    /\ call = NoOpCall
    /\ resS = NoOpRes
    /\ head = Blank
    /\ out = <<>>
    /\ input = <<>>
    /\ resP = NoRes
    /\ endS = NoRes
    /\ endP = NoRes

OpCalled(op, o_a, o_b, r) ==
    /\ call = NoOpCall
    /\ call' = [op |-> op, a |-> o_a, b |-> o_b]
    /\ resS' = r
    /\ UNCHANGED <<head, out, input, resP, endS, endP>>

DoProcess ==
    \E op \in UsizeOps \cup PredicateOps \cup ConverterOps \cup IterableOps
              \cup BooleanOps \cup ComparisonOps :
        \E o_a \in FirstArgs(op), o_b \in SecondArgs(op) :
            OpCalled(op, o_a, o_b, Op_process(op, o_a, o_b))

DoAnd == \E e_a, e_b \in OpExprs : OpCalled("and", ArgExpr(e_a), ArgExpr(e_b), Op_and(e_a, e_b))

DoOr == \E e_a, e_b \in OpExprs : OpCalled("or", ArgExpr(e_a), ArgExpr(e_b), Op_or(e_a, e_b))

DoXor == \E e_a, e_b \in OpExprs : OpCalled("xor", ArgExpr(e_a), ArgExpr(e_b), Op_xor(e_a, e_b))

NextOp ==
    \/ DoProcess
    \/ DoAnd
    \/ DoOr
    \/ DoXor

SpecOp == InitOp /\ [][NextOp]_vars

\* The outcome of a comparison of two numbers by value.
Compared(op, a, b) ==
    CASE op = "Eq" -> NotAbove(a, b) /\ NotAbove(b, a)
      [] op = "Ne" -> ~(NotAbove(a, b) /\ NotAbove(b, a))
      [] op = "Lt" -> ~NotAbove(b, a)
      [] op = "Le" -> NotAbove(a, b)
      [] op = "Gt" -> ~NotAbove(a, b)
      [] OTHER -> NotAbove(b, a)

(* C32: Op::process with a comparison operator returns the Boolean outcome *)
(* of comparing its two operands by numeric value, and fails with          *)
(* NotNumeric when an operand is not a number.                             *)
C32_ComparisonOutcome ==
    call.op \in ComparisonOps =>
        IF IsNumeric(call.a.mv) /\ IsNumeric(call.b.mv)
        THEN resS.ok /\ resS.val = ArgValue(Bul(Compared(call.op, call.a.mv, call.b.mv)))
        ELSE ~resS.ok /\ resS.e = "NotNumeric"

\* What evaluating an argument of a Boolean operator as a Boolean gives.
Evaluated(o) == bool_try_from(Expr_try_from(o))

(* C33: and gives false, and or gives true, from the left expression alone *)
(* when it evaluates to false (to true for or): the right expression is    *)
(* not evaluated and its error or non-Boolean value is not raised.  In     *)
(* every other case where the left expression evaluates to a Boolean, and  *)
(* always for xor, the right expression is evaluated after the left one    *)
(* and decides the result or fails the call.  A left expression that fails *)
(* or is not a Boolean fails the call with its error.                      *)
C33_ShortCircuit ==
    call.op \in {"and", "And", "or", "Or", "xor", "Xor"} =>
        LET a == Evaluated(call.a)
            b == Evaluated(call.b)
            decided == \/ call.op \in {"and", "And"} /\ ~a.b
                       \/ call.op \in {"or", "Or"} /\ a.b
        IN /\ ~a.ok => resS = PErr(a.e, <<"a">>)
           /\ a.ok /\ decided => resS = POk(ArgValue(Bul(a.b)), <<"a">>)
           /\ a.ok /\ ~decided => resS.evals = <<"a", "b">>
           /\ a.ok /\ ~decided /\ ~b.ok => ~resS.ok /\ resS.e = b.e
           /\ a.ok /\ ~decided /\ b.ok =>
                resS.ok /\ resS.val = ArgValue(Bul(IF call.op \in {"xor", "Xor"} THEN a.b # b.b ELSE b.b))

C33_Witness ==
    /\ call.op = "and"
    /\ call.a = ArgExpr(ExprValue(Bul(FALSE)))
    /\ call.b = ArgExpr(ExprFailing("E1"))
    /\ resS = POk(ArgValue(Bul(FALSE)), <<"a">>)

---------------------------------------------------------------------------
(* SpecPred: the predicates of the expression evaluator                    *)
(* (updated_scripting/ops/predicate.rs).  In this specification call holds *)
(* the predicate and the value it is tested on and resS what test          *)
(* returned; tested in a result counts the elements of the value that All  *)
(* or Any handed to the predicate they carry.                              *)

MaxPredLen == 3

\* A mapping, by the keys it holds.
Mp(keys) == [k |-> "Map", n |-> 0, sc |-> 0, s |-> keys]

NoPredicate == [t |-> "-", sub |-> <<>>, b |-> FALSE, n |-> Nil]
Nullary(t) == [NoPredicate EXCEPT !.t = t]
Quantified(t, pred) == [NoPredicate EXCEPT !.t = t, !.sub = <<pred>>]
WithBool(t, b) == [NoPredicate EXCEPT !.t = t, !.b = b]
WithNumber(t, n) == [NoPredicate EXCEPT !.t = t, !.n = n]
HasKey_A(key) == [NoPredicate EXCEPT !.t = "HasKey_A", !.n = key]

TOk(b, tested) == [ok |-> TRUE, b |-> b, e |-> "-", tested |-> tested]
TErr(e, tested) == [ok |-> FALSE, b |-> FALSE, e |-> e, tested |-> tested]

\* TryFrom<&Value> for Boolean, its error mapped to NotBoolean.
Boolean_try_from(mv) ==
    IF mv.k = "Bul" THEN TOk(mv.n = 1, 0) ELSE TErr("NotBoolean", 0)

\* TryFrom<&Value> for Number, its error mapped to NotNumeric.
Number_try_from(mv) ==
    IF mv.k \in {"Int", "Dec"} THEN [ok |-> TRUE, n |-> mv, e |-> "-"]
    ELSE [ok |-> FALSE, n |-> Nil, e |-> "NotNumeric"]

Predicate_compare_by_representation(t, mv, n) ==
    LET v == Number_try_from(mv)
        ord == IF v.n.k = n.k THEN val_cmp(v.n, n) ELSE IF v.n.k = "Int" THEN -1 ELSE 1
    IN IF ~v.ok THEN TErr(v.e, 0)
       ELSE CASE t = "Eq" -> TOk(ord = 0, 0)
              [] t = "Ne" -> TOk(ord # 0, 0)
              [] t = "Lt" -> TOk(ord = -1, 0)
              [] t = "Le" -> TOk(ord # 1, 0)
              [] t = "Gt" -> TOk(ord = 1, 0)
              [] OTHER -> TOk(ord # -1, 0)

\* Number::try_from(mv)?.val_cmp(&n) tested against an ordering.
Predicate_compare(t, mv, n) ==
    LET v == Number_try_from(mv)
        ord == val_cmp(v.n, n)
    IN IF ~v.ok THEN TErr(v.e, 0)
       ELSE CASE t = "Eq" -> TOk(ord = 0, 0)
              [] t = "Ne" -> TOk(ord # 0, 0)
              [] t = "Lt" -> TOk(ord = -1, 0)
              [] t = "Le" -> TOk(ord # 1, 0)
              [] t = "Gt" -> TOk(ord = 1, 0)
              [] OTHER -> TOk(ord # -1, 0)

\* IterableLike::is_empty of a sequence value.
is_empty(il) == TOk(il.s = <<>>, 0)

RECURSIVE Predicate_test(_, _)
RECURSIVE Predicate_loop(_, _, _, _)

Predicate_loop_testing_all(pred, s, i, stop_at) ==
    IF i > Len(s) THEN TOk(~stop_at, Len(s))
    ELSE LET r == Predicate_test(pred, s[i])
             rest == Predicate_loop(pred, s, i + 1, stop_at)
         IN IF ~r.ok THEN TErr(r.e, i)
            ELSE IF ~rest.ok THEN rest
            ELSE IF r.b = stop_at THEN TOk(stop_at, rest.tested)
            ELSE rest

\* The loops of All (stops at the first false) and Any (at the first true).
Predicate_loop(pred, s, i, stop_at) ==
    IF i > Len(s) THEN TOk(~stop_at, Len(s))
    ELSE LET r == Predicate_test(pred, s[i])
         IN IF ~r.ok THEN TErr(r.e, i)
            ELSE IF r.b = stop_at THEN TOk(stop_at, i)
            ELSE Predicate_loop(pred, s, i + 1, stop_at)

Predicate_test(pred, mv) ==
    LET il == IterableLike_try_from(ArgValue(mv))
        b == Boolean_try_from(mv)
    IN CASE pred.t = "AllEqual" ->
                IF ~il.ok THEN TErr(il.e, 0)
                ELSE LET r == all_equal(il.il)
                     IN IF r.ok THEN TOk(r.val, 0) ELSE TErr(r.e, 0)
         [] pred.t = "IsEmpty" -> IF ~il.ok THEN TErr(il.e, 0) ELSE is_empty(il.il)
         [] pred.t = "Not" -> IF ~b.ok THEN b ELSE TOk(~b.b, 0)
         [] pred.t = "All" ->
                IF ~il.ok THEN TErr(il.e, 0) ELSE Predicate_loop(pred.sub[1], il.il.s, 1, FALSE)
         [] pred.t = "Any" ->
                IF ~il.ok THEN TErr(il.e, 0) ELSE Predicate_loop(pred.sub[1], il.il.s, 1, TRUE)
         [] pred.t = "And" -> IF ~b.ok THEN b ELSE TOk(b.b /\ pred.b, 0)
         [] pred.t = "Or" -> IF ~b.ok THEN b ELSE TOk(b.b \/ pred.b, 0)
         [] pred.t = "Xor" -> IF ~b.ok THEN b ELSE TOk(b.b # pred.b, 0)
         [] pred.t \in {"Eq", "Ne", "Lt", "Le", "Gt", "Ge"} -> Predicate_compare(pred.t, mv, pred.n)
         [] pred.t = "HasKey_A" ->
                IF mv.k = "Map" THEN TOk(\E i \in 1..Len(mv.s) : mv.s[i] = pred.n, 0)
                ELSE TErr("NotMapping", 0)
         [] OTHER -> TOk(FALSE, 0)

\* The predicates and values of the model.
PredNumbers == {I(3), I(4), Dec(35, 1), Dec(3, 0)}
Comparisons == {"Eq", "Ne", "Lt", "Le", "Gt", "Ge"}
BooleanPreds == {"And", "Or", "Xor"}

SimplePredicates ==
    {Nullary(t) : t \in {"AllEqual", "IsEmpty", "Not", "HasKey_B"}}
    \cup {WithBool(t, b) : t \in BooleanPreds, b \in BOOLEAN}
    \cup {WithNumber(t, n) : t \in Comparisons, n \in PredNumbers}
    \cup {HasKey_A(Str(1))}

ElementPredicates ==
    {Nullary("Not"), Nullary("IsEmpty"), WithBool("And", TRUE), WithNumber("Eq", I(3)),
     WithNumber("Lt", Dec(35, 1))}

Predicates ==
    SimplePredicates
    \cup {Quantified(t, p) : t \in {"All", "Any"}, p \in ElementPredicates}
    \cup {Quantified("All", Quantified("Any", WithNumber("Eq", I(3))))}

PredElements == {I(3), I(4), Bul(TRUE), Bul(FALSE)}

PredValues ==
    {I(3), I(4), Dec(35, 1), Dec(3, 0), Dec(45, 1), Bul(TRUE), Bul(FALSE), Nil, Str(1),
     Mp(<<Str(1)>>), Mp(<<>>), Sq(<<SeqV, Sq(<<>>)>>), Sq(<<Sq(<<I(4)>>), SeqV>>)}
    \cup {Sq(s) : s \in SeqsUpTo(PredElements, MaxPredLen)}

NoTest == [op |-> "-", pred |-> NoPredicate, mv |-> Nil]

InitPred ==
    /\ call = NoTest
    /\ resS = TErr("n/a", 0)
    /\ head = Blank
    /\ out = <<>>
    /\ input = <<>>
    /\ resP = NoRes
    /\ endS = NoRes
    /\ endP = NoRes

DoTest ==
    /\ call = NoTest
    /\ \E pred \in Predicates, mv \in PredValues :
        /\ call' = [op |-> "test", pred |-> pred, mv |-> mv]
        /\ resS' = Predicate_test(pred, mv)
    /\ UNCHANGED <<head, out, input, resP, endS, endP>>

NextPred == DoTest

SpecPred == InitPred /\ [][NextPred]_vars

\* The elements of s on which pred answers b or fails, by position.
Stops(pred, s, b) ==
    {i \in 1..Len(s) : ~Predicate_test(pred, s[i]).ok \/ Predicate_test(pred, s[i]).b = b}

(* C34: All(p) answers false at the first element on which p tests false   *)
(* and true when there is none (true for the empty sequence); Any(p)       *)
(* answers true at the first element on which p tests true and false when  *)
(* there is none.  No element after the deciding one is tested, an error   *)
(* of p before the deciding element is returned as it is met, and a value  *)
(* that is not a sequence fails.                                           *)
C34_AllAnyShortCircuit ==
    call.op = "test" /\ call.pred.t \in {"All", "Any"} =>
        LET p == call.pred.sub[1]
            s == call.mv.s
            deciding == (call.pred.t = "Any")
            T == Stops(p, s, deciding)
        IN IF call.mv.k # "Seq" THEN ~resS.ok /\ resS.e = "NotIterable" /\ resS.tested = 0
           ELSE IF T = {} THEN resS = TOk(~deciding, Len(s))
           ELSE LET i == Least(T)
                    r == Predicate_test(p, s[i])
                IN /\ resS.tested = i
                   /\ r.ok => resS = TOk(deciding, i)
                   /\ ~r.ok => resS = TErr(r.e, i)

C34_Witness ==
    /\ call.op = "test"
    /\ call.pred = Quantified("All", WithNumber("Eq", I(3)))
    /\ call.mv = Sq(<<I(3), I(4), Bul(TRUE)>>)
    /\ resS = TOk(FALSE, 2)

(* C35: on a number v exactly one of Lt(n), Eq(n) and Gt(n) tests true,    *)
(* the one the numeric values of v and n give across Integer and Decimal;  *)
(* Le(n) is Lt or Eq, Ge(n) is Gt or Eq and Ne(n) is not Eq.  On a value   *)
(* that is not a number all six fail with NotNumeric.  Not, And(b), Or(b)  *)
(* and Xor(b) fail with NotBoolean on a value that is not a Boolean,       *)
(* whatever b is.                                                          *)
C35_ComparisonPredicates ==
    call.op = "test" /\ call.pred.t \in Comparisons \cup BooleanPreds \cup {"Not"} =>
        LET v == call.mv
            n == call.pred.n
            T(t) == Predicate_test(WithNumber(t, n), v)
        IN /\ call.pred.t \in Comparisons => resS = T(call.pred.t)
           /\ call.pred.t \in Comparisons /\ IsNumeric(v) =>
                /\ \A t \in Comparisons : T(t).ok
                /\ Cardinality({t \in {"Lt", "Eq", "Gt"} : T(t).b}) = 1
                /\ T("Lt").b = ~NotAbove(n, v)
                /\ T("Gt").b = ~NotAbove(v, n)
                /\ T("Le").b = (T("Lt").b \/ T("Eq").b)
                /\ T("Ge").b = (T("Gt").b \/ T("Eq").b)
                /\ T("Ne").b = ~T("Eq").b
           /\ call.pred.t \in Comparisons /\ ~IsNumeric(v) =>
                \A t \in Comparisons : T(t) = TErr("NotNumeric", 0)
           /\ call.pred.t \in BooleanPreds \cup {"Not"} /\ v.k # "Bul" =>
                resS = TErr("NotBoolean", 0)
           /\ call.pred.t \in BooleanPreds \cup {"Not"} /\ v.k = "Bul" => resS.ok

C35_Witness ==
    /\ call.op = "test"
    /\ call.pred = WithNumber("Eq", Dec(3, 0))
    /\ call.mv = I(3)
    /\ resS = TOk(TRUE, 0)

(* C36: once an IntersperseAdaptor or an InterleaveAdaptor has returned    *)
(* end-of-stream, every later pull returns end-of-stream: no separator and *)
(* no item of the other stream follows the first end-of-stream.            *)
C36_FusedAfterEnd ==
    head.kind \in {"Intersperse", "Interleave"} =>
        \A i, j \in 1..Len(out) : i < j /\ out[i] = None => out[j] = None

---------------------------------------------------------------------------
(* SpecSort: sort applied to short sequences of values of every kind.  In  *)
(* this specification input is the sequence handed to sort and resS what   *)
(* sort returned for it.                                                   *)

MaxSortLen == 3

SortValues ==
    {Nil, Str(1), SeqV, I(3), I(4), Bul(FALSE), Bul(TRUE), Dec(35, 1), Dec(3, 0)}

InitSort ==
    /\ input \in SeqsUpTo(SortValues, MaxSortLen)
    /\ call = NoCall
    /\ resS = NoRes
    /\ resP = NoRes
    /\ endS = NoRes
    /\ endP = NoRes
    /\ head = Blank
    /\ out = <<>>

DoSortValues ==
    /\ call = NoCall
    /\ call' = [NoCall EXCEPT !.op = "sort"]
    /\ resS' = sort(Sequence(input))
    /\ resP' = sort(Producer(Fixed(input)))
    /\ UNCHANGED <<head, out, input, endS, endP>>

NextSort == DoSortValues

SpecSort == InitSort /\ [][NextSort]_vars

\* The sequences that hold the elements of s in another order.
Reorderings(s) ==
    {[i \in 1..Len(s) |-> s[f[i]]] :
        f \in {g \in [1..Len(s) -> 1..Len(s)] : \A i, j \in 1..Len(s) : g[i] = g[j] => i = j}}

\* Two sequences that agree place by place up to ties of the comparator.
SameUpToTies(s, t) ==
    /\ Len(s) = Len(t)
    /\ \A i \in 1..Len(s) : smart_sort_by(s[i], t[i]) = 0

(* C37: smart_sort_by is a consistent ordering over values of every kind:  *)
(* comparing b with a gives the reverse of comparing a with b, the         *)
(* comparison is transitive, also across Integers, Decimals and values of  *)
(* other kinds, and so what sort returns does not depend on the order of   *)
(* its input beyond ties.                                                  *)
C37_ConsistentOrdering ==
    call.op = "sort" =>
        LET cmp(i, j) == smart_sort_by(input[i], input[j])
            N == 1..Len(input)
        IN /\ \A i, j \in N : cmp(i, j) = Reverse(cmp(j, i))
           /\ \A i, j, k \in N : cmp(i, j) <= 0 /\ cmp(j, k) <= 0 => cmp(i, k) <= 0
           /\ \A t \in Reorderings(input) : SameUpToTies(sort(Sequence(t)).val, resS.val)

---------------------------------------------------------------------------
(* SpecCache: the metadata processor and its cache (metadata/processor.rs).*)
(* The meta files on disk are part of the state: a file either fails to    *)
(* process or processes to a map from item paths to meta blocks, and it    *)
(* may change between two calls.  The cache maps meta paths to processed   *)
(* maps.  In this specification out holds the cache and input the files;   *)
(* call holds the last call, with a tick that every call flips and whether *)
(* the meta path was in the cache when it was made, and resS what it       *)
(* returned, with processed telling whether process_meta_file ran.         *)

cache == out
files == input

MetaPaths == {"a/self.yml", "b/self.yml"}
ItemPaths == {"a/x", "b/z", "/"}
MetaBlocks == {"block1", "block2"}

\* MetaLocation::get_meta_path: the root has no meta file.
get_meta_path(item_path) ==
    CASE item_path = "a/x" -> [ok |-> TRUE, path |-> "a/self.yml", e |-> "-"]
      [] item_path = "b/z" -> [ok |-> TRUE, path |-> "b/self.yml", e |-> "-"]
      [] OTHER -> [ok |-> FALSE, path |-> "-", e |-> "no meta path"]

ItemsUnder(meta_path) ==
    {i \in ItemPaths : get_meta_path(i).ok /\ get_meta_path(i).path = meta_path}

\* HashMap<PathBuf, MetaBlock>: a function on the item paths it holds.
NoMap == [i \in {} |-> "block1"]
MapsOf(meta_path) == UNION {[S -> MetaBlocks] : S \in SUBSET ItemsUnder(meta_path)}

\* What reading and plexing a meta file gives, as the file is now.
Processes(plexed) == [ok |-> TRUE, map |-> plexed, e |-> "-"]
Fails(e) == [ok |-> FALSE, map |-> NoMap, e |-> e]
FileStates(meta_path) ==
    {Processes(m) : m \in MapsOf(meta_path)} \cup {Fails("from_file"), Fails("get_configured_item_paths")}

\* HashMap::remove and HashMap::insert.
HashMap_remove(c, k) == [x \in DOMAIN c \ {k} |-> c[x]]
HashMap_insert(c, k, v) == [x \in DOMAIN c \cup {k} |-> IF x = k THEN v ELSE c[x]]

\* What a call returns, and the cache it leaves.
COk(plexed, block, processed, c) ==
    [ok |-> TRUE, map |-> plexed, block |-> block, e |-> "-", processed |-> processed, cache |-> c]
CErr(e, processed, c) ==
    [ok |-> FALSE, map |-> NoMap, block |-> "-", e |-> e, processed |-> processed, cache |-> c]

NotFound == "item path not found in processed metadata"

process_meta_file(meta_path, fs) == fs[meta_path]

process_item_file(item_path, fs) ==
    LET mp == get_meta_path(item_path)
        processed_meta_file == process_meta_file(mp.path, fs)
    IN IF ~mp.ok THEN CErr(mp.e, FALSE, NoMap)
       ELSE IF ~processed_meta_file.ok THEN CErr(processed_meta_file.e, TRUE, NoMap)
       ELSE IF item_path \in DOMAIN processed_meta_file.map
            THEN COk(NoMap, processed_meta_file.map[item_path], TRUE, NoMap)
            ELSE CErr(NotFound, TRUE, NoMap)

process_meta_file_cached_always_processing(meta_path, fs, c, force) ==
    LET c1 == HashMap_remove(c, meta_path)
        r == process_meta_file(meta_path, fs)
    IN IF ~r.ok THEN CErr(r.e, TRUE, c1)
       ELSE COk(r.map, "-", TRUE, HashMap_insert(c1, meta_path, r.map))

process_meta_file_cached_keeping_on_error(meta_path, fs, c, force) ==
    LET c1 == IF force THEN HashMap_remove(c, meta_path) ELSE c
        r == process_meta_file(meta_path, fs)
    IN IF meta_path \in DOMAIN c1 THEN COk(c1[meta_path], "-", FALSE, c1)
       ELSE IF ~r.ok THEN CErr(r.e, TRUE, c)
       ELSE COk(r.map, "-", TRUE, HashMap_insert(c1, meta_path, r.map))

process_meta_file_cached(meta_path, fs, c, force) ==
    LET c1 == IF force THEN HashMap_remove(c, meta_path) ELSE c
        r == process_meta_file(meta_path, fs)
    IN IF meta_path \in DOMAIN c1 THEN COk(c1[meta_path], "-", FALSE, c1)
       ELSE IF ~r.ok THEN CErr(r.e, TRUE, c1)
       ELSE COk(r.map, "-", TRUE, HashMap_insert(c1, meta_path, r.map))

\* The argument of ok_or is evaluated before ok_or is called, and it is
\* bail!: the function returns the error whatever get found.
process_item_file_cached(item_path, fs, c, force) ==
    LET mp == get_meta_path(item_path)
        processed_meta_file == process_meta_file_cached(mp.path, fs, c, force)
    IN IF ~mp.ok THEN CErr(mp.e, FALSE, c)
       ELSE IF ~processed_meta_file.ok THEN processed_meta_file
       ELSE CErr(NotFound, processed_meta_file.processed, processed_meta_file.cache)

NoCacheCall == [op |-> "-", path |-> "-", force |-> FALSE, tick |-> 0, cached |-> FALSE]
Returned(r) == [ok |-> r.ok, map |-> r.map, block |-> r.block, e |-> r.e, processed |-> r.processed]

InitCache ==
    /\ cache = NoMap
    /\ files \in {f \in [MetaPaths -> UNION {FileStates(m) : m \in MetaPaths}] :
                    \A m \in MetaPaths : f[m] \in FileStates(m)}
    /\ call = NoCacheCall
    /\ resS = Returned(CErr("n/a", FALSE, NoMap))
    /\ head = Blank
    /\ resP = NoRes
    /\ endS = NoRes
    /\ endP = NoRes

CacheCalled(op, path, force, r) ==
    /\ call' = [op |-> op, path |-> path, force |-> force, tick |-> 1 - call.tick,
                cached |-> (IF path \in MetaPaths THEN path ELSE get_meta_path(path).path) \in DOMAIN cache]
    /\ resS' = Returned(r)
    /\ cache' = r.cache
    /\ UNCHANGED <<files, head, resP, endS, endP>>

\* The meta file at a path is edited, removed or repaired.
Touch ==
    \E m \in MetaPaths : \E f \in FileStates(m) \ {files[m]} :
        /\ files' = [files EXCEPT ![m] = f]
        /\ UNCHANGED <<cache, call, resS, head, resP, endS, endP>>

DoProcessMetaFile ==
    \E m \in MetaPaths :
        LET r == process_meta_file(m, files)
        IN CacheCalled("process_meta_file", m, FALSE,
                       IF r.ok THEN COk(r.map, "-", TRUE, cache) ELSE CErr(r.e, TRUE, cache))

DoProcessItemFile ==
    \E i \in ItemPaths :
        CacheCalled("process_item_file", i, FALSE, [process_item_file(i, files) EXCEPT !.cache = cache])

DoProcessMetaFileCached ==
    \E m \in MetaPaths, force \in BOOLEAN :
        CacheCalled("process_meta_file_cached", m, force, process_meta_file_cached(m, files, cache, force))

DoProcessItemFileCached ==
    \E i \in ItemPaths, force \in BOOLEAN :
        CacheCalled("process_item_file_cached", i, force, process_item_file_cached(i, files, cache, force))

NextCache ==
    \/ Touch
    \/ DoProcessMetaFile
    \/ DoProcessItemFile
    \/ DoProcessMetaFileCached
    \/ DoProcessItemFileCached

SpecCache == InitCache /\ [][NextCache]_vars

\* The step is a call of op: every call flips the tick.
IsCallOf(op) == call'.tick # call.tick /\ call'.op = op

\* The entries of the cache at the meta paths other than meta_path are as before.
OthersUntouched(meta_path) ==
    \A o \in MetaPaths \ {meta_path} :
        /\ o \in DOMAIN cache' <=> o \in DOMAIN cache
        /\ o \in DOMAIN cache => cache'[o] = cache[o]

(* C38: a call of process_meta_file_cached without force for a path in the *)
(* cache returns the cached map, does not process the file and leaves the  *)
(* cache as it was; a forced call, or one for a path not in the cache,     *)
(* processes the file and on success returns the map the file gives, which *)
(* is then the cache's entry for the path; no call changes the entry of    *)
(* another path.                                                           *)
C38_CachedMetaFile ==
    [][IsCallOf("process_meta_file_cached") =>
        LET m == call'.path
            hit == ~call'.force /\ m \in DOMAIN cache
        IN /\ hit => /\ resS'.ok /\ resS'.map = cache[m]
                     /\ ~resS'.processed
                     /\ cache' = cache
           /\ ~hit => resS'.processed
           /\ ~hit /\ resS'.ok => /\ files[m].ok /\ resS'.map = files[m].map
                                 /\ m \in DOMAIN cache' /\ cache'[m] = resS'.map
           /\ OthersUntouched(m)]_vars

\* A call without force returned a cached map that the file no longer gives.
C38_Witness ==
    /\ call.op = "process_meta_file_cached"
    /\ ~call.force
    /\ resS.ok /\ ~resS.processed
    /\ cache[call.path] = resS.map
    /\ files[call.path] # Processes(resS.map)
    /\ DOMAIN cache = MetaPaths

(* C39: process_meta_file_cached fails exactly when it has to process the  *)
(* file and processing fails; it then returns that error and the cache has *)
(* no entry for the path: without force the cache is as before the call,   *)
(* with force the entry the path had before the call is gone and the rest  *)
(* is as before.                                                           *)
C39_FailedProcessing ==
    [][IsCallOf("process_meta_file_cached") =>
        LET m == call'.path
            hit == ~call'.force /\ m \in DOMAIN cache
        IN /\ ~resS'.ok <=> (~hit /\ ~files[m].ok)
           /\ ~resS'.ok =>
                /\ resS'.e = files[m].e
                /\ m \notin DOMAIN cache'
                /\ ~call'.force => cache' = cache
                /\ call'.force => DOMAIN cache' = DOMAIN cache \ {m}
                /\ OthersUntouched(m)]_vars

\* A forced call failed for a path that was in the cache, another path is cached.
C39_Witness ==
    /\ call.op = "process_meta_file_cached"
    /\ call.force /\ call.cached
    /\ ~resS.ok /\ resS.e = "from_file"
    /\ DOMAIN cache = MetaPaths \ {call.path}

(* C40: process_item_file_cached returns for an item path what             *)
(* process_item_file returns for it from the map that the call of          *)
(* process_meta_file_cached for its meta path gives: Ok(block) when the    *)
(* item path is a key of that map, and the error 'item path not found in   *)
(* processed metadata' only when it is not.                                *)
C40_CachedItemFile ==
    [][IsCallOf("process_item_file_cached") =>
        LET i == call'.path
            mp == get_meta_path(i)
            meta == process_meta_file_cached(mp.path, files, cache, call'.force)
        IN /\ ~mp.ok => ~resS'.ok /\ resS'.e = mp.e
           /\ mp.ok /\ ~meta.ok => ~resS'.ok /\ resS'.e = meta.e
           /\ mp.ok /\ meta.ok /\ i \in DOMAIN meta.map =>
                /\ resS'.ok /\ resS'.block = meta.map[i]
                /\ meta.processed => Returned(process_item_file(i, files)) = [resS' EXCEPT !.processed = TRUE]
           /\ mp.ok /\ meta.ok /\ i \notin DOMAIN meta.map => ~resS'.ok /\ resS'.e = NotFound]_vars

=============================================================================
